---------------------------- MODULE Spec2Model ----------------------------
(***************************************************************************)
(* State-machine model of the Survex 3D decoder, src/lib/survex-parser.ts  *)
(* (class SurvexParser), with the item-type constants of the enum          *)
(* SurvexItemType the parser is compiled against.                          *)
(*                                                                         *)
(* Representation.                                                         *)
(*  - A Uint8Array is a record [buffer, byteOffset, length]: a window on   *)
(*    the bytes of an ArrayBuffer.  Bytes are integers 0..255.             *)
(*  - A JavaScript string is the sequence of its UTF-16 code units.        *)
(*  - null is NULL where a string is expected, NONE where an object is.    *)
(*  - A coordinate is kept as a fixed-point number with Scale units per    *)
(*    metre: the integer n stands for the double n / 100 that the code     *)
(*    computes (the division is exact enough to be injective on int32).    *)
(*  - A Date is its time value in milliseconds.                            *)
(*  - A Map is the sequence of its entries in insertion order.             *)
(*  - A reference to a leg object is its index in legs (0 for null).       *)
(*                                                                         *)
(* And of the recent-files list, src/lib/storage.ts (class                 *)
(* RecentFilesManager over a RecentFilesStorage).  The value in the store  *)
(* is the JSON text that JSON.stringify writes, kept as the list of its    *)
(* entries: a Date is there as its ISO string, an undefined property is    *)
(* not there.                                                              *)
(***************************************************************************)
EXTENDS Integers, Sequences, FiniteSets, TLC

VARIABLES
  data,              \* this.data: the Uint8Array given to the constructor
  position,          \* this.position
  currentPoint,      \* this.currentPoint
  labelBuffer,       \* this.labelBuffer
  stations,          \* this.stations (Map, insertion order)
  legs,              \* this.legs
  lastStationLabel,  \* this.lastStationLabel
  lastStationPoint,  \* this.lastStationPoint
  pendingLeg,        \* this.pendingLeg
  pc,                \* where the caller / parse() stands
  header,            \* parse(): const header
  item,              \* parseItems(): const item of the last iteration
  outcomes,          \* what each parse() call returned or threw, in call order
  decoded,           \* the items parseItem() has returned in this call, in order
  now,               \* the clock value last read by new Date() or Date.now()
  input,             \* how the buffer under test was built
  reads,             \* the readString() calls made on their own, in call order
  store,             \* RecentFilesStorage: the value kept under storageKey
  maxFiles,          \* RecentFilesManager: this.maxFiles
  calls,             \* the addRecentFile() calls that await their storage
  added,             \* the files given to addRecentFile(), in call order
  overlapped         \* two addRecentFile() calls have been under way at once

vars == <<data, position, currentPoint, labelBuffer, stations, legs,
          lastStationLabel, lastStationPoint, pendingLeg, pc, header, item,
          outcomes, decoded, now, input, reads, store, maxFiles, calls, added,
          overlapped>>

\* the variables of the recent-files store
storeVars == <<store, maxFiles, calls, added, overlapped>>

\* the variables of the decoder
parserVars == <<data, position, currentPoint, labelBuffer, stations, legs,
                lastStationLabel, lastStationPoint, pendingLeg, pc, header, item,
                outcomes, decoded, input, reads>>

fields == <<position, currentPoint, labelBuffer, stations, legs,
            lastStationLabel, lastStationPoint, pendingLeg>>

-----------------------------------------------------------------------------
(* Bounds of the model *)

\* longest item list drawn from the item pool
MaxItems == 3
\* largest clock reading (new Date()) in milliseconds past the first one
MaxNow == 1

-----------------------------------------------------------------------------
(* Program constants *)

MOVE == 15
LINE_START == 64
LINE_END == 127
LABEL_START == 128
LABEL_END == 255
\* '\n'.charCodeAt(0)
NL == 10
\* '@'
AT_SIGN == 64
\* 'v'
LOWER_V == 118
\* the "no label change" bit of a LINE type byte
NO_LABEL_BIT == 32
\* the escape value of an unpacked count byte
WIDE == 255
\* centimetres per metre: xRaw / 100
Scale == 100
\* U+FFFD, what a non-fatal TextDecoder puts for a malformed sequence
REPLACEMENT == 65533
\* U+FEFF, the byte order mark a TextDecoder drops from the start
BOM == 65279

\* null / undefined where a string is expected
NULL == <<-1>>
\* null / undefined where an object is expected
NONE == [none |-> TRUE]

\* 'Survex 3D Image File'
MAGIC == <<83,117,114,118,101,120,32,51,68,32,73,109,97,103,101,32,70,105,108,101>>

-----------------------------------------------------------------------------
(* Arithmetic and string helpers *)

\* the element of a one-element set.  The({e(v) : v \in {x}}) is e(x) with x
\* evaluated once and before e, as JavaScript evaluates a const or an argument
The(set) == CHOOSE y \in set : TRUE

Min(a, b) == IF a < b THEN a ELSE b
Max(a, b) == IF a > b THEN a ELSE b
Abs(a) == IF a < 0 THEN -a ELSE a

\* startsWith comparing without regard to case
toLowerCase(c) == IF c >= 65 /\ c <= 90 THEN c + 32 ELSE c
startsWith_anyCase(s, prefix) ==
  /\ Len(s) >= Len(prefix)
  /\ \A i \in 1..Len(prefix) : toLowerCase(s[i]) = toLowerCase(prefix[i])

\* String.prototype.startsWith
startsWith(s, prefix) ==
  /\ Len(s) >= Len(prefix)
  /\ \A i \in 1..Len(prefix) : s[i] = prefix[i]

\* String.prototype.substring(from)
substring(s, from) == SubSeq(s, Min(from, Len(s)) + 1, Len(s))

\* String.prototype.slice(0, -n) for n > 0; slice(0, -0) is slice(0, 0)
sliceEnd(s, n) == SubSeq(s, 1, Max(Len(s) - n, 0))

-----------------------------------------------------------------------------
(* Typed array and DataView *)

\* data[i]
At(d, i) == d.buffer[d.byteOffset + i + 1]

\* data.slice(from, to): the bytes from..to-1 that exist
slice(d, from, to) ==
  [i \in 1..Max(Min(to, d.length) - Min(from, d.length), 0) |-> At(d, from + i - 1)]

\* new DataView(data.buffer, off, w).getUintN(0, true): the view is laid on the
\* ArrayBuffer itself, at byte off of the ArrayBuffer.  (The model checker's
\* integers are 32 bits wide, so the unsigned 32-bit values of the inputs are
\* kept below 2^31.)
RECURSIVE getUint(_, _, _)
getUint(ab, off, w) ==
  IF w = 0 THEN 0 ELSE ab[off + 1] + 256 * getUint(ab, off + 1, w - 1)

\* getInt32 losing the sign of the value
getInt32_abs(ab, off) ==
  LET top == ab[off + 4]
      value == getUint(ab, off, 3) + 16777216 * (IF top >= 128 THEN top - 256 ELSE top)
  IN IF value < 0 THEN -value ELSE value

\* getInt32(0, true): two's complement, the top byte carrying the sign
getInt32(ab, off) ==
  LET top == ab[off + 4] IN
  getUint(ab, off, 3) + 16777216 * (IF top >= 128 THEN top - 256 ELSE top)

-----------------------------------------------------------------------------
(* new TextDecoder('utf-8', { fatal: false }).decode(bytes) *)

\* The WHATWG UTF-8 decoder: the code points of bs from byte i on, with `needed`
\* continuation bytes outstanding, `seen` of them read into cp, the next one
\* accepted in lower..upper.  A malformed sequence gives U+FFFD and the byte
\* that broke it is decoded again.
RECURSIVE utf8(_, _, _, _, _, _, _)
utf8(bs, i, needed, seen, cp, lower, upper) ==
  IF i > Len(bs) THEN (IF needed # 0 THEN <<REPLACEMENT>> ELSE <<>>)
  ELSE LET b == bs[i] IN
    IF needed = 0 THEN
      IF b <= 127 THEN <<b>> \o utf8(bs, i + 1, 0, 0, 0, 128, 191)
      ELSE IF b >= 194 /\ b <= 223 THEN utf8(bs, i + 1, 1, 0, b % 32, 128, 191)
      ELSE IF b >= 224 /\ b <= 239 THEN
        utf8(bs, i + 1, 2, 0, b % 16,
             IF b = 224 THEN 160 ELSE 128, IF b = 237 THEN 159 ELSE 191)
      ELSE IF b >= 240 /\ b <= 244 THEN
        utf8(bs, i + 1, 3, 0, b % 8,
             IF b = 240 THEN 144 ELSE 128, IF b = 244 THEN 143 ELSE 191)
      ELSE <<REPLACEMENT>> \o utf8(bs, i + 1, 0, 0, 0, 128, 191)
    ELSE IF b < lower \/ b > upper THEN
      <<REPLACEMENT>> \o utf8(bs, i, 0, 0, 0, 128, 191)
    ELSE LET c == cp * 64 + (b % 64) IN
      IF seen + 1 = needed THEN <<c>> \o utf8(bs, i + 1, 0, 0, 0, 128, 191)
      ELSE utf8(bs, i + 1, needed, seen + 1, c, 128, 191)

\* the UTF-16 code units of a sequence of code points
RECURSIVE utf16(_)
utf16(cps) ==
  IF cps = <<>> THEN <<>>
  ELSE LET c == Head(cps) IN
    (IF c >= 65536
       THEN <<55296 + ((c - 65536) \div 1024), 56320 + ((c - 65536) % 1024)>>
       ELSE <<c>>) \o utf16(Tail(cps))

\* decode(): a leading byte order mark is dropped (ignoreBOM is false)
decode(bs) ==
  The({ utf16(IF cps # <<>> /\ Head(cps) = BOM THEN Tail(cps) ELSE cps)
       : cps \in {utf8(bs, 1, 0, 0, 0, 128, 191)} })

-----------------------------------------------------------------------------
(* parseInt(s, 10) *)

\* the white space parseInt skips (the ASCII part of StrWhiteSpaceChar, NBSP, BOM)
isWhiteSpace(c) == c \in {9, 10, 11, 12, 13, 32, 160, BOM}
isDigit(c) == c >= 48 /\ c <= 57

RECURSIVE skipWhiteSpace(_)
skipWhiteSpace(s) ==
  IF s # <<>> /\ isWhiteSpace(Head(s)) THEN skipWhiteSpace(Tail(s)) ELSE s

\* the longest run of decimal digits that starts s: [nan, value], nan when the
\* run is empty
RECURSIVE digits(_, _, _)
digits(s, acc, any) ==
  IF s # <<>> /\ isDigit(Head(s))
    THEN digits(Tail(s), acc * 10 + (Head(s) - 48), TRUE)
    ELSE [nan |-> ~any, value |-> acc]

\* parseInt(s, 10): [nan, value]
parseInt(s) ==
  The({ The({ IF t # <<>> /\ Head(t) = 45 THEN [v EXCEPT !.value = -v.value] ELSE v
            : v \in {digits(IF t # <<>> /\ Head(t) \in {43, 45} THEN Tail(t) ELSE t,
                            0, FALSE)} })
       : t \in {skipWhiteSpace(s)} })

\* a Date: [valid, time], time in milliseconds
Date(time) == [valid |-> TRUE, time |-> time]
InvalidDate == [valid |-> FALSE, time |-> 0]

\* newDate taking the number as milliseconds
newDate_seconds(n) == IF n.nan THEN InvalidDate ELSE Date(n.value)

\* new Date(n.value * 1000) for the number n that parseInt returned: NaN gives an
\* Invalid Date (the 8.64e15 ms limit of a Date is beyond the numbers of the model)
newDate(n) == IF n.nan THEN InvalidDate ELSE Date(n.value * 1000)

-----------------------------------------------------------------------------
(* Binary reading utilities.  Each returns [threw, value, position]: whether *)
(* it threw Error('End of file'), the value read, the cursor afterwards.     *)

\* readUint8 without the increment of the cursor
readUint8_stay(d, pos) ==
  IF pos >= d.length
    THEN [threw |-> TRUE, value |-> 0, position |-> pos]
    ELSE [threw |-> FALSE, value |-> At(d, pos), position |-> pos]

readUint8(d, pos) ==
  IF pos >= d.length
    THEN [threw |-> TRUE, value |-> 0, position |-> pos]
    ELSE [threw |-> FALSE, value |-> At(d, pos), position |-> pos + 1]

readUint16(d, pos) ==
  IF pos + 2 > d.length
    THEN [threw |-> TRUE, value |-> 0, position |-> pos]
    ELSE [threw |-> FALSE, value |-> getUint(d.buffer, pos, 2), position |-> pos + 2]

readUint32(d, pos) ==
  IF pos + 4 > d.length
    THEN [threw |-> TRUE, value |-> 0, position |-> pos]
    ELSE [threw |-> FALSE, value |-> getUint(d.buffer, pos, 4), position |-> pos + 4]

\* readInt32 without the end-of-file check, the bytes past the end read as 0
readInt32_unchecked(d, pos) ==
  [threw |-> FALSE, value |-> getInt32(d.buffer \o [i \in 1..(pos + 4) |-> 0], pos),
   position |-> pos + 4]

readInt32(d, pos) ==
  IF pos + 4 > d.length
    THEN [threw |-> TRUE, value |-> 0, position |-> pos]
    ELSE [threw |-> FALSE, value |-> getInt32(d.buffer, pos), position |-> pos + 4]

\* the while loop of readString: the first index >= pos that holds the
\* delimiter, or the end of the data
RECURSIVE scan(_, _, _)
scan(d, pos, delimiterCode) ==
  IF pos < d.length /\ At(d, pos) # delimiterCode
    THEN scan(d, pos + 1, delimiterCode) ELSE pos

\* the try block of readString(delimiter), delimiter given by its char code:
\* [threw, value, position], threw when it throws Error('End of file while
\* reading string'), the cursor then at the end of the data
readStringTry(d, pos, delimiterCode) ==
  The({ IF end >= d.length /\ delimiterCode # 0
           THEN [threw |-> TRUE, value |-> <<>>, position |-> end]
           ELSE [threw |-> FALSE, value |-> decode(slice(d, pos, end)),
                 position |-> IF end < d.length THEN end + 1 ELSE end]
       : end \in {scan(d, pos, delimiterCode)} })

\* readString(delimiter): the catch clause logs the error of the try block and
\* returns '', so nothing is thrown to the caller
readString(d, pos, delimiterCode) ==
  The({ IF r.threw THEN [threw |-> FALSE, value |-> <<>>, position |-> r.position]
         ELSE r
       : r \in {readStringTry(d, pos, delimiterCode)} })

-----------------------------------------------------------------------------
(* The label-modification algorithm *)

\* the counts of an edit read at pos: [threw, deleteCount, appendCount, position]
Counts(threw, deleteCount, appendCount, pos) ==
  [threw |-> threw, deleteCount |-> deleteCount, appendCount |-> appendCount,
   position |-> pos]

\* a count read as its byte whatever the byte is
readCount_byte(d, pos) == readUint8(d, pos)

\* a count of the unpacked form: the byte, or the 32 bits after a byte of 0xFF
readCount(d, pos) ==
  The({ IF byte.threw \/ byte.value # WIDE THEN byte
         ELSE readUint32(d, byte.position)
       : byte \in {readUint8(d, pos)} })

\* the unpacked form: the delete count read at pos, then the append count
readUnpacked(d, pos) ==
  The({ IF del.threw THEN Counts(TRUE, 0, 0, del.position)
         ELSE The({ IF app.threw THEN Counts(TRUE, 0, 0, app.position)
                     ELSE Counts(FALSE, del.value, app.value, app.position)
                   : app \in {readCount(d, del.position)} })
       : del \in {readCount(d, pos)} })

readCounts(d, pos) ==
  The({ IF firstByte.threw THEN Counts(TRUE, 0, 0, firstByte.position)
         ELSE IF firstByte.value # 0
           THEN Counts(FALSE, firstByte.value \div 16, firstByte.value % 16,
                       firstByte.position)
           ELSE readUnpacked(d, firstByte.position)
       : firstByte \in {readUint8(d, pos)} })

\* the label buffer after the delete step
applyDelete(buf, deleteCount) ==
  IF deleteCount > 0 THEN sliceEnd(buf, deleteCount) ELSE buf

\* the append step: [labelBuffer, position]
applyAppend(d, pos, buf, appendCount) ==
  IF appendCount > 0
    THEN [labelBuffer |-> buf \o decode(slice(d, pos, pos + appendCount)),
          position |-> pos + appendCount]
    ELSE [labelBuffer |-> buf, position |-> pos]

\* parseLabelModification(): [threw, labelBuffer, position]; the value returned
\* is the new labelBuffer
parseLabelModification(d, pos, buf) ==
  The({ IF c.threw
           THEN [threw |-> TRUE, labelBuffer |-> buf, position |-> c.position]
           ELSE The({ [threw |-> FALSE, labelBuffer |-> a.labelBuffer,
                       position |-> a.position]
                     : a \in {applyAppend(d, c.position,
                                          applyDelete(buf, c.deleteCount),
                                          c.appendCount)} })
       : c \in {readCounts(d, pos)} })

-----------------------------------------------------------------------------
(* Item decoding.  s is the record of the parser's fields; each operator     *)
(* returns [threw, item, s]: the fields keep what was written before a throw. *)

Point(x, y, z) == [x |-> x, y |-> y, z |-> z]

\* three readInt32 in x, y, z order: [threw, point, position].  A read that
\* throws ends the statement: the reads after it are not made.
readPoint(d, pos) ==
  The({ The({ The({ IF zRaw.threw
                       THEN [threw |-> TRUE, point |-> NONE, position |-> zRaw.position]
                       ELSE [threw |-> FALSE,
                             point |-> Point(xRaw.value, yRaw.value, zRaw.value),
                             position |-> zRaw.position]
                   : zRaw \in {IF yRaw.threw THEN yRaw
                               ELSE readInt32(d, yRaw.position)} })
             : yRaw \in {IF xRaw.threw THEN xRaw ELSE readInt32(d, xRaw.position)} })
       : xRaw \in {readInt32(d, pos)} })

Item(type, point, label) == [type |-> type, point |-> point, label |-> label]

NoItem == Item(-1, NONE, NULL)

\* the item, or the throw, after the label edit of a LINE or LABEL item
\* (edit: [threw, labelBuffer, position]) and its three coordinates
parseCoordinates(d, s, itemType, edit, label) ==
  IF edit.threw
    THEN [threw |-> TRUE, item |-> NoItem, s |-> [s EXCEPT !.position = edit.position]]
    ELSE The({ [threw |-> p.threw,
                 item |-> IF p.threw THEN NoItem ELSE Item(itemType, p.point, label),
                 s |-> [s EXCEPT !.labelBuffer = edit.labelBuffer,
                                 !.position = p.position]]
             : p \in {readPoint(d, edit.position)} })

parseMove(d, s) ==
  The({ IF p.threw
           THEN [threw |-> TRUE, item |-> NoItem,
                 s |-> [s EXCEPT !.position = p.position]]
           ELSE [threw |-> FALSE, item |-> Item(MOVE, p.point, NULL),
                 s |-> [s EXCEPT !.position = p.position, !.currentPoint = p.point]]
       : p \in {readPoint(d, s.position)} })

\* parseLine reading a label edit whatever the type byte
parseLine_alwaysEdit(d, s, itemType) ==
  The({ parseCoordinates(d, s, itemType, edit, edit.labelBuffer)
       : edit \in {parseLabelModification(d, s.position, s.labelBuffer)} })

parseLine(d, s, itemType) ==
  IF ((itemType % 64) \div NO_LABEL_BIT) % 2 = 0
    THEN The({ parseCoordinates(d, s, itemType, edit, edit.labelBuffer)
             : edit \in {parseLabelModification(d, s.position, s.labelBuffer)} })
    ELSE parseCoordinates(d, s, itemType,
           [threw |-> FALSE, labelBuffer |-> s.labelBuffer, position |-> s.position],
           <<>>)

parseLabel(d, s, itemType) ==
  The({ parseCoordinates(d, s, itemType, edit, edit.labelBuffer)
       : edit \in {parseLabelModification(d, s.position, s.labelBuffer)} })

parseDate(d, s, itemType) ==
  IF itemType = 17 /\ s.position + 2 <= d.length
    THEN [threw |-> FALSE, item |-> Item(itemType, NONE, NULL),
          s |-> [s EXCEPT !.position = readUint16(d, s.position).position]]
    ELSE [threw |-> FALSE, item |-> Item(itemType, NONE, NULL), s |-> s]

parseErrorInfo(d, s) == [threw |-> FALSE, item |-> Item(31, NONE, NULL), s |-> s]

\* the branches of parseItem() on the type byte just read, s1 the fields after
\* reading it
dispatch(d, s1, type) ==
  IF type = MOVE THEN parseMove(d, s1)
  ELSE IF type >= LINE_START /\ type <= LINE_END THEN parseLine(d, s1, type)
  ELSE IF type >= LABEL_START /\ type <= LABEL_END THEN parseLabel(d, s1, type)
  ELSE IF type <= 4 THEN [threw |-> FALSE, item |-> Item(type, NONE, NULL), s |-> s1]
  ELSE IF type >= 16 /\ type <= 19 THEN parseDate(d, s1, type)
  ELSE IF type = 31 THEN parseErrorInfo(d, s1)
  ELSE [threw |-> FALSE, item |-> Item(type, NONE, NULL), s |-> s1]

parseItem(d, s) ==
  The({ IF t.threw THEN [threw |-> TRUE, item |-> NoItem, s |-> s]
         ELSE The({ dispatch(d, s1, t.value)
                   : s1 \in {[s EXCEPT !.position = t.position]} })
       : t \in {readUint8(d, s.position)} })

-----------------------------------------------------------------------------
(* The graph builder *)

\* mapSet adding an entry whether or not the key is there
mapSet_append(m, name, point) == Append(m, [name |-> name, point |-> point])

\* Map.prototype.set: an existing key keeps its place, a new key goes last
mapSet(m, name, point) ==
  IF \E i \in 1..Len(m) : m[i].name = name
    THEN [i \in 1..Len(m) |->
            IF m[i].name = name THEN [name |-> name, point |-> point] ELSE m[i]]
    ELSE Append(m, [name |-> name, point |-> point])

\* Math.abs(a - b) < 0.001, a and b in units of 1 / Scale
closeTo(a, b) == Abs(a - b) * 1000 < Scale

\* newLeg without the name of the station the leg starts from
newLeg_unnamed(s, it) ==
  [fromStation |-> <<>>, toStation |-> <<>>,
   fromX |-> s.currentPoint.x, fromY |-> s.currentPoint.y, fromZ |-> s.currentPoint.z,
   toX |-> it.point.x, toY |-> it.point.y, toZ |-> it.point.z,
   flags |-> it.type % 64]

\* newLeg taking the coordinates of the item as relative to the current point
newLeg_relative(s, it) ==
  [fromStation |-> IF s.lastStationLabel = NULL THEN <<>> ELSE s.lastStationLabel,
   toStation |-> <<>>,
   fromX |-> s.currentPoint.x, fromY |-> s.currentPoint.y, fromZ |-> s.currentPoint.z,
   toX |-> s.currentPoint.x + it.point.x, toY |-> s.currentPoint.y + it.point.y,
   toZ |-> s.currentPoint.z + it.point.z,
   flags |-> it.type % 64]

\* the leg a LINE item creates
newLeg(s, it) ==
  [fromStation |-> IF s.lastStationLabel = NULL THEN <<>> ELSE s.lastStationLabel,
   toStation |-> <<>>,
   fromX |-> s.currentPoint.x, fromY |-> s.currentPoint.y, fromZ |-> s.currentPoint.z,
   toX |-> it.point.x, toY |-> it.point.y, toZ |-> it.point.z,
   flags |-> it.type % 64]

\* processMove leaving lastStationLabel as it is
processMove_keepLabel(s, it) ==
  [s EXCEPT !.currentPoint = it.point, !.lastStationPoint = NONE, !.pendingLeg = 0]

\* the MOVE branch of processItem
processMove(s, it) ==
  [s EXCEPT !.currentPoint = it.point, !.lastStationLabel = NULL,
            !.lastStationPoint = NONE, !.pendingLeg = 0]

\* processLine leaving lastStationLabel as it is
processLine_keepLabel(s, it) ==
  [s EXCEPT !.legs = Append(s.legs, newLeg(s, it)),
            !.pendingLeg = Len(s.legs) + 1,
            !.currentPoint = it.point,
            !.lastStationPoint = NONE]

\* the LINE branch of processItem
processLine(s, it) ==
  [s EXCEPT !.legs = Append(s.legs, newLeg(s, it)),
            !.pendingLeg = Len(s.legs) + 1,
            !.currentPoint = it.point,
            !.lastStationLabel = NULL,
            !.lastStationPoint = NONE]

\* pendingLegEndsAt without the comparison of the coordinates
pendingLegEndsAt_anywhere(s, it) == s.pendingLeg # 0

\* does the pending leg end at the point of the LABEL item
pendingLegEndsAt(s, it) ==
  /\ s.pendingLeg # 0
  /\ closeTo(s.legs[s.pendingLeg].toX, it.point.x)
  /\ closeTo(s.legs[s.pendingLeg].toY, it.point.y)
  /\ closeTo(s.legs[s.pendingLeg].toZ, it.point.z)

\* the LABEL branch of processItem, for a non-empty label
processLabel(s, it) ==
  The({ IF pendingLegEndsAt(s, it)
           THEN [s1 EXCEPT !.legs[s.pendingLeg].toStation = it.label, !.pendingLeg = 0]
           ELSE s1
       : s1 \in {[s EXCEPT !.stations = mapSet(s.stations, it.label, it.point),
                           !.lastStationLabel = it.label,
                           !.lastStationPoint = it.point,
                           !.currentPoint = it.point]} })

\* processItem dropping the pending leg at an item of any other type
processItem_otherBreaks(s, it) ==
  IF it.type = MOVE THEN
    (IF it.point # NONE THEN processMove(s, it) ELSE s)
  ELSE IF it.type >= LINE_START /\ it.type <= LINE_END THEN
    (IF it.point # NONE THEN processLine(s, it) ELSE s)
  ELSE IF it.type >= LABEL_START /\ it.type <= LABEL_END THEN
    (IF it.point # NONE /\ it.label # NULL /\ it.label # <<>>
       THEN processLabel(s, it) ELSE s)
  ELSE [s EXCEPT !.pendingLeg = 0]

processItem(s, it) ==
  IF it.type = MOVE THEN
    (IF it.point # NONE THEN processMove(s, it) ELSE s)
  ELSE IF it.type >= LINE_START /\ it.type <= LINE_END THEN
    (IF it.point # NONE THEN processLine(s, it) ELSE s)
  ELSE IF it.type >= LABEL_START /\ it.type <= LABEL_END THEN
    (IF it.point # NONE /\ it.label # NULL /\ it.label # <<>>
       THEN processLabel(s, it) ELSE s)
  ELSE s

\* one iteration of the while loop of parseItems, entered with
\* position < data.length: [s, item, broke]
parseItemsStep(d, s) ==
  The({ IF r.threw
           THEN [s |-> r.s, item |-> NoItem, broke |-> TRUE]
           ELSE The({ [s |-> processItem(s1, it), item |-> it, broke |-> FALSE]
                     : s1 \in {r.s}, it \in {r.item} })
       : r \in {parseItem(d, s)} })

\* the station array parse() builds from the Map
stationArray(m) ==
  [i \in 1..Len(m) |->
     [name |-> m[i].name, x |-> m[i].point.x, y |-> m[i].point.y,
      z |-> m[i].point.z, flags |-> 0]]

Bounds(minX, maxX, minY, maxY, minZ, maxZ) ==
  [minX |-> minX, maxX |-> maxX, minY |-> minY, maxY |-> maxY,
   minZ |-> minZ, maxZ |-> maxZ]

\* the for loop of calculateBounds from station i on, b the bounds so far
RECURSIVE boundsLoop(_, _, _)
boundsLoop(sts, i, b) ==
  IF i > Len(sts) THEN b
  ELSE The({ boundsLoop(sts, i + 1, b1)
           : b1 \in {Bounds(Min(b.minX, sts[i].x), Max(b.maxX, sts[i].x),
                            Min(b.minY, sts[i].y), Max(b.maxY, sts[i].y),
                            Min(b.minZ, sts[i].z), Max(b.maxZ, sts[i].z))} })

\* firstBounds starting every axis from 0
firstBounds_zero(sts) == Bounds(0, 0, 0, 0, 0, 0)

\* the bounds before the loop: the first station on every axis
firstBounds(sts) ==
  Bounds(sts[1].x, sts[1].x, sts[1].y, sts[1].y, sts[1].z, sts[1].z)

calculateBounds(sts) ==
  IF Len(sts) = 0
    THEN Bounds(0, 0, 0, 0, 0, 0)
    ELSE boundsLoop(sts, 1, firstBounds(sts))

-----------------------------------------------------------------------------
(* The header *)

Header(fileId, version, title, timestamp, flags) ==
  [fileId |-> fileId, version |-> version, title |-> title, separator |-> <<46>>,
   timestamp |-> timestamp, flags |-> flags]

\* the timestamp of the header: [usesClock, threw, timestamp].  With a leading
\* '@' the rest goes through parseInt and new Date, and the log line calls
\* toISOString(), which throws a RangeError on an Invalid Date; without it the
\* timestamp is new Date(), the clock reading t.
parseTimestamp(timestampString, t) ==
  IF startsWith(timestampString, <<AT_SIGN>>)
    THEN LET timestamp == newDate(parseInt(substring(timestampString, 1))) IN
         [usesClock |-> FALSE, threw |-> ~timestamp.valid, timestamp |-> timestamp]
    ELSE [usesClock |-> TRUE, threw |-> FALSE, timestamp |-> Date(t)]

\* parseHeader() throwing the error e at cursor pos
headerThrows(e, pos, usesClock) ==
  [threw |-> TRUE, error |-> e, header |-> NONE, position |-> pos,
   usesClock |-> usesClock]

\* the end of parseHeader(): the timestamp and the flags byte
headerEnd(d, fileId, version, surveyTitle, timestampString, t) ==
  The({ IF ts.threw
           THEN headerThrows("Invalid time value", timestampString.position, FALSE)
         ELSE IF flags.threw
           THEN headerThrows("End of file", flags.position, ts.usesClock)
         ELSE [threw |-> FALSE, error |-> "",
               header |-> Header(fileId.value, version.value, surveyTitle.value,
                                 ts.timestamp, flags.value),
               position |-> flags.position, usesClock |-> ts.usesClock]
       : ts \in {parseTimestamp(timestampString.value, t)},
         flags \in {readUint8(d, timestampString.position)} })

\* parseHeader(), the clock reading t: [threw, error, header, position, usesClock]
parseHeader(d, pos, t) ==
  The({ IF ~startsWith(fileId.value, MAGIC)
           THEN headerThrows("Invalid Survex file format", fileId.position, FALSE)
           ELSE The({ IF ~startsWith(version.value, <<LOWER_V>>)
                         THEN headerThrows("Invalid version format", version.position,
                                           FALSE)
                         ELSE The({ The({ headerEnd(d, fileId, version, surveyTitle,
                                                    timestampString, t)
                                         : timestampString \in
                                             {readString(d, surveyTitle.position, NL)} })
                                   : surveyTitle \in {readString(d, version.position, NL)} })
                     : version \in {readString(d, fileId.position, NL)} })
       : fileId \in {readString(d, pos, NL)} })

\* resetFields without the reset of the label buffer
resetFields_keepLabel ==
  [position |-> 0, currentPoint |-> Point(0, 0, 0), labelBuffer |-> labelBuffer,
   stations |-> <<>>, legs |-> <<>>, lastStationLabel |-> NULL,
   lastStationPoint |-> NONE, pendingLeg |-> 0]

\* the fields as parse() resets them (and as the class initialises them)
resetFields ==
  [position |-> 0, currentPoint |-> Point(0, 0, 0), labelBuffer |-> <<>>,
   stations |-> <<>>, legs |-> <<>>, lastStationLabel |-> NULL,
   lastStationPoint |-> NONE, pendingLeg |-> 0]

\* the value parse() returns
ParseResult(h, s) ==
  The({ [kind |-> "return", header |-> h, stations |-> stationArr, legs |-> s.legs,
          bounds |-> calculateBounds(stationArr)]
       : stationArr \in {stationArray(s.stations)} })

\* what a parse() that throws leaves to its caller
Thrown(e) == [kind |-> "throw", error |-> e]

-----------------------------------------------------------------------------
(* The buffers under test.  They are built the way the file format lays a     *)
(* file out: four newline-terminated header lines, a flags byte, the items.   *)

\* longest appended byte string of the label edits under test
MaxAppend == 2
\* largest delete count of the label edits under test
MaxDelete == 3

\* a fresh Uint8Array over its own ArrayBuffer (new Uint8Array(n), byteOffset 0)
Uint8Array(bytes) == [buffer |-> bytes, byteOffset |-> 0, length |-> Len(bytes)]

\* the four bytes of a 32-bit little-endian unsigned integer below 2^31
U32LE(n) == <<n % 256, (n \div 256) % 256, (n \div 65536) % 256, n \div 16777216>>

\* the four bytes of a 32-bit little-endian two's complement integer
I32LE(n) ==
  IF n >= 0 THEN U32LE(n)
  ELSE LET m == U32LE(-n - 1) IN <<255 - m[1], 255 - m[2], 255 - m[3], 255 - m[4]>>

PointBytes(p) == I32LE(p.x) \o I32LE(p.y) \o I32LE(p.z)

\* the points of the inputs, in centimetres
P1 == Point(1, 2, 3)
P2 == Point(-1, 2, 300)
P3 == Point(1802, -5878, 2047)
Points == {P1, P2, P3}

\* the characters the label edits append, in UTF-8: 'a', and U+00E9 in two bytes
EditLetters == {<<97>>, <<195, 169>>}

\* the texts of at most n bytes over EditLetters, in UTF-8
RECURSIVE ByteStrings(_)
ByteStrings(n) ==
  IF n = 0 THEN {<<>>}
  ELSE The({ shorter \cup {b \in {x \o c : x \in shorter, c \in EditLetters} :
                              Len(b) <= n}
           : shorter \in {ByteStrings(n - 1)} })

\* an edit prefix in its forms: one packed byte; a zero byte and two count bytes;
\* the same with the delete count, or the append count, as 0xFF and 32 bits
EditForms == {"packed", "unpacked", "wideDelete", "wideAppend"}

EncodeEdit(form, del, bytes) ==
  LET app == Len(bytes) IN
  CASE form = "packed" -> <<del * 16 + app>> \o bytes
    [] form = "unpacked" -> <<0, del, app>> \o bytes
    [] form = "wideDelete" -> <<0, WIDE>> \o U32LE(del) \o <<app>> \o bytes
    [] form = "wideAppend" -> <<0, del, WIDE>> \o U32LE(app) \o bytes

\* the edits under test: [form, del, bytes]; the packed form has no (0, 0)
Edits ==
  {e \in [form : EditForms, del : 0..MaxDelete, bytes : ByteStrings(MaxAppend)] :
     e.form = "packed" => (e.del # 0 \/ e.bytes # <<>>)}

\* an item of an input: its type byte, the bytes between the type byte and the
\* coordinates (the label edit, or the payload of a DATE item), its point
InItem(type, prefix, point) == [type |-> type, prefix |-> prefix, point |-> point]

EncodeItem(it) ==
  <<it.type>> \o it.prefix \o (IF it.point = NONE THEN <<>> ELSE PointBytes(it.point))

RECURSIVE EncodeItems(_)
EncodeItems(its) ==
  IF its = <<>> THEN <<>> ELSE EncodeItem(Head(its)) \o EncodeItems(Tail(its))

\* a LABEL item whose edit deletes 15 characters and appends the name: its
\* label is the name whatever the buffer held (the names are shorter than 15)
LabelNamed(type, name, point) == InItem(type, <<15 * 16 + Len(name)>> \o name, point)

\* the items the item lists are drawn from
ItemPool ==
  { InItem(MOVE, <<>>, P1),
    InItem(96, <<>>, P2),                    \* LINE, no label change
    LabelNamed(128, <<97>>, P2),             \* LABEL 'a'
    InItem(130, <<0, 0, 1, 98>>, P3),        \* LABEL, edit: append 'b'
    InItem(17, <<7, 0>>, NONE) }             \* DATE with its two bytes

\* item lists of length 0..n over the pool
RECURSIVE ItemLists(_)
ItemLists(n) ==
  IF n = 0 THEN {<<>>}
  ELSE The({ shorter \cup {Append(l, i) : l \in {x \in shorter : Len(x) = n - 1},
                                        i \in ItemPool}
           : shorter \in {ItemLists(n - 1)} })

\* a header: the four lines and the flags byte
InHeader(magic, version, title, timestamp, flags) ==
  [magic |-> magic, version |-> version, title |-> title,
   timestamp |-> timestamp, flags |-> flags]

EncodeHeader(h) ==
  h.magic \o <<NL>> \o h.version \o <<NL>> \o h.title \o <<NL>>
    \o h.timestamp \o <<NL>> \o <<h.flags>>

\* 'v8', 'T', '@17'
StdHeader == InHeader(MAGIC, <<118, 56>>, <<84>>, <<64, 49, 55>>, 0)

\* the header lines under test, each varied on its own
Magics ==
  { MAGIC,
    MAGIC \o <<33>>,                         \* 'Survex 3D Image File!'
    <<239, 187, 191>> \o MAGIC,              \* a byte order mark, then the magic
    SubSeq(MAGIC, 1, Len(MAGIC) - 1),        \* 'Survex 3D Image Fil'
    <<115>> \o Tail(MAGIC) }                 \* 'survex 3D Image File'
Versions == { <<118, 56>>, <<118>>, <<86, 56>>, <<>> }      \* 'v8' 'v' 'V8' ''
Timestamps ==
  { <<64, 49, 55>>,          \* '@17'
    <<64, 48>>,              \* '@0'
    <<64, 49, 55, 48, 48, 48, 48, 48>>,      \* '@1700000'
    <<64>>,                  \* '@'
    <<64, 120>>,             \* '@x'
    <<64, 49, 120>>,         \* '@1x'
    <<64, 45, 53>>,          \* '@-5'
    <<49, 55>>,              \* '17'
    <<>> }                   \* ''

Headers ==
  {[StdHeader EXCEPT !.magic = m] : m \in Magics}
    \cup {[StdHeader EXCEPT !.version = v] : v \in Versions}
    \cup {[StdHeader EXCEPT !.timestamp = ts] : ts \in Timestamps}
    \cup {[StdHeader EXCEPT !.title = <<>>, !.flags = 128]}
    \cup {[StdHeader EXCEPT !.title = <<195, 169, 32, 49>>, !.flags = 255]}
    \cup {[StdHeader EXCEPT !.magic = <<88>>, !.version = <<>>]}

\* the items that follow the headers under test
TailItems ==
  <<InItem(MOVE, <<>>, P1), InItem(96, <<>>, P2), LabelNamed(128, <<97>>, P2)>>

\* the number of items of its that lie wholly within the first n bytes
RECURSIVE WholeItems(_, _)
WholeItems(its, n) ==
  IF its = <<>> \/ Len(EncodeItem(Head(its))) > n THEN 0
  ELSE 1 + WholeItems(Tail(its), n - Len(EncodeItem(Head(its))))

\* An input: the header h, the item list its, and the number of bytes kept of
\* the header and of the items.  `whole` counts the items wholly kept; `about`
\* says what an input of the edit family tests.
InputAbout(family, h, its, keepHeader, keepItems, about) ==
  The({ [family |-> family, header |-> h, items |-> its,
          full |-> hb \o ib,
          bytes |-> SubSeq(hb, 1, keepHeader) \o SubSeq(ib, 1, keepItems),
          headerKept |-> keepHeader = Len(hb),
          whole |-> WholeItems(its, keepItems),
          about |-> about]
       : hb \in {EncodeHeader(h)}, ib \in {EncodeItems(its)} })

Input(family, h, its, keepHeader, keepItems) ==
  InputAbout(family, h, its, keepHeader, keepItems, NONE)

\* headers under test, cut after any byte; the uncut ones are followed by items
HeaderInputs ==
  UNION {{Input("header", h, TailItems, k, 0) : k \in 0..Len(EncodeHeader(h))} :
           h \in Headers}
    \cup {Input("header", h, TailItems, Len(EncodeHeader(h)), Len(EncodeItems(TailItems))) :
            h \in Headers}

\* the byte counts that cut the list its inside its last item, and its full length
LastItemCuts(its) ==
  LET n == Len(EncodeItems(its)) IN
  IF its = <<>> THEN {0}
  ELSE (n - Len(EncodeItem(its[Len(its)])) + 1)..n

\* item lists after the standard header, cut at any byte of the last item
PoolInputs ==
  UNION {{Input("pool", StdHeader, its, Len(EncodeHeader(StdHeader)), k) :
            k \in LastItemCuts(its)} : its \in ItemLists(MaxItems)}

\* MOVE, LINE, LABEL, LINE, LABEL: each LABEL at the target of the LINE before it
ChainItems(p0, t1, p1, n1, t2, p2, n2) ==
  <<InItem(MOVE, <<>>, p0),
    InItem(t1, IF t1 = 96 THEN <<>> ELSE <<1, 120>>, p1),
    LabelNamed(128, n1, p1),
    InItem(t2, IF t2 = 96 THEN <<>> ELSE <<1, 120>>, p2),
    LabelNamed(130, n2, p2)>>

\* the names of the chains: 'a', 'b', and the empty label
Names == {<<97>>, <<98>>, <<>>}

\* the input of the family with the standard header and all of the items its
Uncut(family, its) ==
  Input(family, StdHeader, its, Len(EncodeHeader(StdHeader)), Len(EncodeItems(its)))

ChainInputs ==
  {Uncut("chain", ChainItems(p[1], t[1], p[2], n[1], t[2], p[3], n[2])) :
     p \in Points \X Points \X Points, t \in {96, 64} \X {96, 64}, n \in Names \X Names}

\* the label buffers the edits under test start from: '', 'a', 'ab'
StartBuffers == {<<>>, <<97>>, <<97, 98>>}

\* A LABEL that leaves the label buffer at b, then a LABEL (129) or a LINE (65)
\* that carries the edit e; the buffer is whole, or ends inside the bytes the
\* edit appends.
EditItems(b, type, e) ==
  <<LabelNamed(128, b, P1), InItem(type, EncodeEdit(e.form, e.del, e.bytes), P2)>>

EditInputs ==
  UNION {
    {InputAbout("edit", StdHeader, EditItems(b, type, e),
                Len(EncodeHeader(StdHeader)), Len(EncodeItems(EditItems(b, type, e))) - k,
                [start |-> b, type |-> type, edit |-> e]) :
       k \in {0} \cup (13..(12 + Len(e.bytes)))} :
    b \in StartBuffers, type \in {129, 65}, e \in Edits}

\* An item of each type byte, then a MOVE.  The item has what the format gives
\* its type: an edit that appends 'x' for a LABEL and for a LINE whose bit
\* 0x20 is clear, the two bytes of the days for the DATE 0x11, coordinates for
\* MOVE, LINE and LABEL.
TypeItems(type) ==
  <<InItem(type,
           IF type = 17 THEN <<7, 0>>
           ELSE IF type >= LABEL_START
                   \/ (type >= LINE_START /\ (type \div NO_LABEL_BIT) % 2 = 0)
             THEN <<1, 120>>
           ELSE <<>>,
           IF type = MOVE \/ type >= LINE_START THEN P3 ELSE NONE),
    InItem(MOVE, <<>>, P1)>>

TypeInputs == {Uncut("type", TypeItems(type)) : type \in 0..255}

Inputs == HeaderInputs \cup PoolInputs \cup ChainInputs \cup EditInputs \cup TypeInputs


-----------------------------------------------------------------------------
(* The recent-files list: RecentFilesManager over a RecentFilesStorage *)

\* the largest number of addRecentFile() calls of a run
MaxCalls == 3
\* the largest limit maxFiles of the managers under test
MaxLimit == 3
\* the largest number of addRecentFile() calls that await their storage at once
MaxInFlight == 2
\* the largest number of readString() calls made on their own on one parser
MaxReads == 2
\* the largest byte offset of a view into its ArrayBuffer
MaxOffset == 2

\* maxFiles: number = 10, the default of the constructor
DefaultMaxFiles == 10

\* the value undefined, a number, and a property that a JSON text does not have
UNDEFINED == [kind |-> "undefined", value |-> 0]
ABSENT == [kind |-> "absent", value |-> 0]
Number(n) == [kind |-> "number", value |-> n]

\* Number.prototype.toString() of a non-negative integer
RECURSIVE toString(_)
toString(n) ==
  IF n < 10 THEN <<48 + n>> ELSE toString(n \div 10) \o <<48 + (n % 10)>>

\* Date.prototype.toJSON(): the ISO string of the instant
toJSON(date) == [iso |-> date.time]

\* new Date(isoString)
dateOfString(string) == Date(string.iso)

RecentFile(id, name, path, size, lastOpened) ==
  [id |-> id, name |-> name, path |-> path, size |-> size, lastOpened |-> lastOpened]

\* JSON.stringify(files): a Date is written as its ISO string, a property
\* whose value is undefined is left out
stringify(files) ==
  [i \in 1..Len(files) |->
     RecentFile(files[i].id, files[i].name, files[i].path,
                IF files[i].size = UNDEFINED THEN ABSENT ELSE files[i].size,
                toJSON(files[i].lastOpened))]

\* getRecentFiles() on what getItem() returned: [] for null, else the entries
\* of JSON.parse(stored), each spread with lastOpened made a Date again; a
\* property that is not there reads as undefined
getRecentFiles(stored) ==
  IF stored = NONE THEN <<>>
  ELSE [i \in 1..Len(stored.text) |->
          RecentFile(stored.text[i].id, stored.text[i].name, stored.text[i].path,
                     IF stored.text[i].size = ABSENT THEN UNDEFINED
                     ELSE stored.text[i].size,
                     dateOfString(stored.text[i].lastOpened))]

\* sameFile comparing the paths
sameFile_byPath(f, file) == f.path = file.path

\* const sameFile = f.name === file.name && f.size === file.size
sameFile(f, file) == f.name = file.name /\ f.size = file.size

\* files.filter(f => !sameFile)
RECURSIVE filter(_, _)
filter(files, file) ==
  IF files = <<>> THEN <<>>
  ELSE (IF sameFile(Head(files), file) THEN <<>> ELSE <<Head(files)>>)
         \o filter(Tail(files), file)

\* { ...file, id: Date.now().toString(), lastOpened: new Date() }, the two
\* clock readings t1 and t2
newFile(file, t1, t2) ==
  RecentFile(toString(t1), file.name, file.path, file.size, Date(t2))

\* sliceStart keeping the whole list
sliceStart_all(list, end) == list

\* Array.prototype.slice(0, end)
sliceStart(list, end) ==
  SubSeq(list, 1, IF end >= 0 THEN Min(end, Len(list)) ELSE Max(Len(list) + end, 0))

\* addRecentFile(), from the list it read to the list it writes
updated(recentFiles, file, max, t1, t2) ==
  sliceStart(<<newFile(file, t1, t2)>> \o filter(recentFiles, file), max)

\* the static updateRecentFilesList(currentFiles, newFile, maxFiles)
updateRecentFilesList(currentFiles, file, max, t1, t2) ==
  The({ sliceStart(<<fileWithTimestamp>> \o filtered, max)
       : filtered \in {filter(currentFiles, file)},
         fileWithTimestamp \in {RecentFile(toString(t1), file.name, file.path,
                                           file.size, Date(t2))} })

\* the files given to addRecentFile(): name, path, size (a number or undefined)
File(name, path, size) == [name |-> name, path |-> path, size |-> size]

\* files named 'a' and 'b', at '/p' and '/q', of 1 and 2 bytes and of no known size
Files ==
  { File(<<97>>, <<47, 112>>, Number(1)),
    File(<<97>>, <<47, 113>>, Number(1)),
    File(<<97>>, <<47, 112>>, Number(2)),
    File(<<97>>, <<47, 112>>, UNDEFINED),
    File(<<98>>, <<47, 113>>, UNDEFINED) }

-----------------------------------------------------------------------------
(* The state machine *)

\* the parser's fields as one record, and back
S ==
  [position |-> position, currentPoint |-> currentPoint, labelBuffer |-> labelBuffer,
   stations |-> stations, legs |-> legs, lastStationLabel |-> lastStationLabel,
   lastStationPoint |-> lastStationPoint, pendingLeg |-> pendingLeg]

SetFields(s) ==
  /\ position' = s.position
  /\ currentPoint' = s.currentPoint
  /\ labelBuffer' = s.labelBuffer
  /\ stations' = s.stations
  /\ legs' = s.legs
  /\ lastStationLabel' = s.lastStationLabel
  /\ lastStationPoint' = s.lastStationPoint
  /\ pendingLeg' = s.pendingLeg

\* new SurvexParser(d), d an array that holds the bytes of the input in: the
\* field initialisers
ConstructedOn(in, d) ==
  /\ input = [in EXCEPT !.bytes = <<>>]
  /\ data = d
  /\ position = 0
  /\ currentPoint = Point(0, 0, 0)
  /\ labelBuffer = <<>>
  /\ stations = <<>>
  /\ legs = <<>>
  /\ lastStationLabel = NULL
  /\ lastStationPoint = NONE
  /\ pendingLeg = 0
  /\ pc = "constructed"
  /\ header = NONE
  /\ item = NoItem
  /\ outcomes = <<>>
  /\ decoded = <<>>
  /\ now = 0
  /\ reads = <<>>

\* new SurvexParser(data), data a fresh array of the bytes of the input in
Constructed(in) == ConstructedOn(in, Uint8Array(in.bytes))

\* new RecentFilesManager(storage, storageKey, max) over an empty storage
ManagerConstructed(max) ==
  /\ store = NONE
  /\ maxFiles = max
  /\ calls = <<>>
  /\ added = <<>>
  /\ overlapped = FALSE

Init == \E in \in Inputs : Constructed(in) /\ ManagerConstructed(DefaultMaxFiles)

\* the caller calls parse() when no call is running; it calls it twice
CanCall == pc \in {"constructed", "returned", "threw"} /\ Len(outcomes) < 2

\* the clock readings a call may see: the clock never runs backwards
ClockReadings == now..MaxNow

\* parse(), from its entry to the return of parseHeader()
parse_header ==
  /\ CanCall
  /\ \E t \in ClockReadings : \E r \in {parseHeader(data, resetFields.position, t)} :
       /\ ~r.threw
       /\ r.usesClock \/ t = now
       /\ now' = t
       /\ SetFields([resetFields EXCEPT !.position = r.position])
       /\ header' = r.header
       /\ item' = NoItem
       /\ decoded' = <<>>
       /\ pc' = "parseItems"
       /\ UNCHANGED <<data, outcomes, input, reads, storeVars>>

\* parse(), from its entry to the error parseHeader() throws, which parse()
\* does not catch
parse_header_throws ==
  /\ CanCall
  /\ \E t \in ClockReadings : \E r \in {parseHeader(data, resetFields.position, t)} :
       /\ r.threw
       /\ r.usesClock \/ t = now
       /\ now' = t
       /\ SetFields([resetFields EXCEPT !.position = r.position])
       /\ header' = NONE
       /\ item' = NoItem
       /\ decoded' = <<>>
       /\ outcomes' = Append(outcomes, Thrown(r.error))
       /\ pc' = "threw"
       /\ UNCHANGED <<data, input, reads, storeVars>>

\* one iteration of the loop of parseItems(): parseItem(), then processItem(),
\* or the break of the catch clause
Iteration ==
  \E r \in {parseItemsStep(data, S)} :
    /\ SetFields(r.s)
    /\ item' = r.item
    /\ decoded' = IF r.broke THEN decoded ELSE Append(decoded, r.item)
    /\ pc' = IF r.broke THEN "assemble" ELSE "parseItems"
    /\ UNCHANGED <<data, header, outcomes, now, input, reads, storeVars>>

InLoop == pc = "parseItems" /\ position < data.length

parseItems_move == InLoop /\ At(data, position) = MOVE /\ Iteration

parseItems_line ==
  InLoop /\ At(data, position) \in LINE_START..LINE_END /\ Iteration

parseItems_label ==
  InLoop /\ At(data, position) \in LABEL_START..LABEL_END /\ Iteration

parseItems_other ==
  /\ InLoop
  /\ At(data, position) \notin {MOVE} \cup (LINE_START..LABEL_END)
  /\ Iteration

\* parse(), from the end of the loop to its return
parse_return ==
  /\ pc = "assemble" \/ (pc = "parseItems" /\ position >= data.length)
  /\ outcomes' = Append(outcomes, ParseResult(header, S))
  /\ pc' = "returned"
  /\ UNCHANGED <<data, fields, header, item, decoded, now, input, reads, storeVars>>

Next ==
  \/ parse_header
  \/ parse_header_throws
  \/ parseItems_move
  \/ parseItems_line
  \/ parseItems_label
  \/ parseItems_other
  \/ parse_return

Spec == Init /\ [][Next]_vars

\* parse() is synchronous: a call that has started runs on, step after step,
\* until it returns or throws
Running ==
  \/ parseItems_move
  \/ parseItems_line
  \/ parseItems_label
  \/ parseItems_other
  \/ parse_return

LiveSpec == Spec /\ WF_vars(Running)

-----------------------------------------------------------------------------
(* The state machine of the recent-files list: addRecentFile() calls on one   *)
(* manager.  A call reads the storage when it is made and writes it when it   *)
(* is resumed; between the two, another call may be made or resumed.          *)

\* the input of a decoder that is given no byte
NoInput == Input("none", StdHeader, <<>>, 0, 0)

RecentInit ==
  Constructed(NoInput) /\ \E max \in 1..MaxLimit : ManagerConstructed(max)

\* addRecentFile(file), to the await of the storage read: getRecentFiles()
\* has called getItem()
addRecentFile_read ==
  /\ Len(added) < MaxCalls
  /\ Len(calls) < MaxInFlight
  /\ \E file \in Files :
       /\ calls' = Append(calls, [file |-> file, stored |-> store])
       /\ added' = Append(added, file)
  /\ overlapped' = (overlapped \/ calls # <<>>)
  /\ UNCHANGED <<store, maxFiles, now, parserVars>>

\* addRecentFile(), from the value read to setItem(): the call i of those
\* that wait is resumed
addRecentFile_write ==
  \E i \in 1..Len(calls) : \E t1 \in now..MaxNow : \E t2 \in t1..MaxNow :
    /\ store' = [text |-> stringify(updated(getRecentFiles(calls[i].stored),
                                            calls[i].file, maxFiles, t1, t2))]
    /\ now' = t2
    /\ calls' = SubSeq(calls, 1, i - 1) \o SubSeq(calls, i + 1, Len(calls))
    /\ UNCHANGED <<maxFiles, added, overlapped, parserVars>>

RecentNext == addRecentFile_read \/ addRecentFile_write

RecentSpec == RecentInit /\ [][RecentNext]_vars

-----------------------------------------------------------------------------
(* The state machine of parse() on a view: the Uint8Array given to the        *)
(* constructor is a window that starts begin bytes into a larger ArrayBuffer. *)

\* new Uint8Array(bytes).subarray(begin): the same ArrayBuffer, seen from
\* byte begin on
Subarray(bytes, begin) ==
  [buffer |-> bytes, byteOffset |-> begin, length |-> Len(bytes) - begin]

\* the bytes of the ArrayBuffer that lie before the view
Padding(n) == [i \in 1..n |-> 1]

\* the inputs seen through a view: the headers, an item of each type, the edits
ViewInputs == HeaderInputs \cup TypeInputs \cup EditInputs

ViewInit ==
  \E in \in ViewInputs : \E begin \in 0..MaxOffset :
    /\ ConstructedOn(in, Subarray(Padding(begin) \o in.bytes, begin))
    /\ ManagerConstructed(DefaultMaxFiles)

ViewSpec == ViewInit /\ [][Next]_vars

-----------------------------------------------------------------------------
(* The state machine of readString(): calls of readString(delimiter) on a    *)
(* parser that has just been constructed, each from the cursor the call      *)
(* before it left.                                                           *)

\* the delimiters of the calls: '\0', '\n' and '@'
Delimiters == {0, NL, AT_SIGN}

ReadInit == \E in \in HeaderInputs : Constructed(in) /\ ManagerConstructed(DefaultMaxFiles)

\* readString(delimiter) called and returned or thrown
readStringCall(delimiterCode) ==
  /\ pc = "constructed"
  /\ Len(reads) < MaxReads
  /\ \E r \in {readString(data, position, delimiterCode)} :
       /\ position' = r.position
       /\ reads' = Append(reads, [start |-> position, delimiter |-> delimiterCode,
                                  threw |-> r.threw, value |-> r.value,
                                  position |-> r.position])
  /\ UNCHANGED <<data, currentPoint, labelBuffer, stations, legs, lastStationLabel,
                 lastStationPoint, pendingLeg, pc, header, item, outcomes, decoded,
                 now, input, storeVars>>

\* the delimiter is in the data at or after the cursor
DelimiterAhead(delimiterCode) ==
  \E i \in position..(data.length - 1) : At(data, i) = delimiterCode

readString_found ==
  \E delimiterCode \in Delimiters :
    DelimiterAhead(delimiterCode) /\ readStringCall(delimiterCode)

readString_missing ==
  \E delimiterCode \in Delimiters :
    ~DelimiterAhead(delimiterCode) /\ readStringCall(delimiterCode)

ReadNext == readString_found \/ readString_missing

ReadSpec == ReadInit /\ [][ReadNext]_vars

-----------------------------------------------------------------------------
(* The vocabulary of the properties, stated on the bytes of the buffer and   *)
(* on the results parse() returns                                            *)

IsPrefix(p, s) == Len(p) <= Len(s) /\ SubSeq(s, 1, Len(p)) = p

Last(s) == s[Len(s)]

\* The line of the buffer that starts at byte from (counted from 1; 0 when the
\* line before is missing): [present, text, next], the text being the UTF-8
\* decoding of the bytes before the newline, next the byte after the newline.
\* A line whose newline is missing is not present.
NoLine == [present |-> FALSE, text |-> <<>>, next |-> 0]

LineAt(bs, from) ==
  IF from = 0 \/ ~(\E i \in from..Len(bs) : bs[i] = 10) THEN NoLine
  ELSE LET nl == CHOOSE i \in from..Len(bs) :
                   bs[i] = 10 /\ \A j \in from..(i - 1) : bs[j] # 10
       IN [present |-> TRUE, text |-> decode(SubSeq(bs, from, nl - 1)), next |-> nl + 1]

LineFrom(bs, from) == The({ LineAt(bs, f) : f \in {from} })

Line1 == LineFrom(data.buffer, 1)
Line2 == LineFrom(data.buffer, Line1.next)
Line3 == LineFrom(data.buffer, Line2.next)
Line4 == LineFrom(data.buffer, Line3.next)

MagicOk == Line1.present /\ IsPrefix(MAGIC, Line1.text)
VersionOk == Line2.present /\ IsPrefix(<<118>>, Line2.text)

\* the four lines and the flags byte are all in the buffer
HeaderWhole == Line4.present /\ Line4.next <= Len(data.buffer)

\* parse() has been called
Called == pc # "constructed"

\* the buffer holds every byte of the input it was cut from
NotCut == Len(data.buffer) = Len(input.full)

\* the size of the standard header, where the items start
ItemsStart == Len(EncodeHeader(StdHeader))

StdHeaderKept == input.header = StdHeader /\ input.headerKept

-----------------------------------------------------------------------------
(* C1 *)

\* C1: whenever the first line of the buffer does not start with the magic, or
\* the second line does not start with 'v', every call of parse() throws and
\* returns no result; no item is decoded and no station or leg is produced;
\* and when it is the magic that fails, the error is the magic's and the cursor
\* stands where the version line starts: the version line has not been read.
C1_HeaderMismatchThrows ==
  (Called /\ ~(MagicOk /\ VersionOk)) =>
    /\ pc = "threw"
    /\ outcomes # <<>>
    /\ \A i \in 1..Len(outcomes) : outcomes[i].kind = "throw"
    /\ decoded = <<>> /\ item = NoItem /\ stations = <<>> /\ legs = <<>>
    /\ ~MagicOk =>
         /\ Last(outcomes).error = "Invalid Survex file format"
         /\ position = IF Line1.present THEN Line1.next - 1 ELSE data.length

\* parse() has thrown twice on a buffer with the magic, a second line 'V8' and
\* items after the header
C1_Witness ==
  /\ pc = "threw" /\ Len(outcomes) = 2
  /\ MagicOk /\ Line2.present /\ ~VersionOk
  /\ NotCut /\ input.items # <<>>

-----------------------------------------------------------------------------
(* C2 *)

\* C2, as the specification has it: parse() throws only when the magic or the
\* version of the header does not match.
C2_OnlyHeaderMismatchThrows == pc = "threw" => ~(MagicOk /\ VersionOk)

\* parse() has thrown on a buffer whose magic and version match
C2_Witness == pc = "threw" /\ MagicOk /\ VersionOk

-----------------------------------------------------------------------------
(* C3 *)

\* the fields after the first k iterations of the loop of parseItems() on d
RECURSIVE parseItemsFor(_, _, _)
parseItemsFor(d, s, k) ==
  IF k = 0 THEN s
  ELSE The({ parseItemsFor(d, s1, k - 1) : s1 \in {parseItemsStep(d, s).s} })

\* the fields of a parse of the whole input once it has processed the items
\* that the buffer under test holds wholly
WholeItemsParsed ==
  parseItemsFor(Uint8Array(input.full), [resetFields EXCEPT !.position = ItemsStart],
                input.whole)

\* C3: a buffer cut from a valid header and a well-formed item sequence, at an
\* item boundary or inside an item, never makes parse() throw, and the stations
\* and legs returned are those the parse of the whole sequence has after the
\* items that lie wholly before the cut.
C3_TruncationKeepsWholeItems ==
  (Called /\ StdHeaderKept) =>
    /\ pc # "threw"
    /\ pc = "returned" =>
         /\ Last(outcomes).kind = "return"
         /\ Last(outcomes).stations = stationArray(WholeItemsParsed.stations)
         /\ Last(outcomes).legs = WholeItemsParsed.legs

\* parse() has returned a station and a leg from a buffer cut inside its last
\* item, a LABEL
C3_Witness ==
  /\ pc = "returned" /\ StdHeaderKept /\ ~NotCut
  /\ input.whole = Len(input.items) - 1
  /\ Last(input.items).type >= LABEL_START
  /\ Len(Last(outcomes).stations) = 1 /\ Len(Last(outcomes).legs) = 1
-----------------------------------------------------------------------------
(* C4 *)

\* C4, as the specification has it: whatever the fourth line of a header whose
\* magic and version match and whose flags byte is there, parse() does not
\* throw: it returns the header and goes on to the items.
C4_TimestampNeverAborts == (Called /\ MagicOk /\ VersionOk /\ HeaderWhole) => pc # "threw"

\* parse() has thrown on a whole header whose fourth line is '@' and no digits
C4_Witness ==
  /\ pc = "threw" /\ MagicOk /\ VersionOk /\ HeaderWhole
  /\ IsPrefix(<<64>>, Line4.text)
  /\ Last(outcomes).error = "Invalid time value"

-----------------------------------------------------------------------------
(* C5, C6: the inputs of the edit family.  Their first item leaves the label *)
(* buffer at input.about.start; their second item carries the edit           *)
(* input.about.edit, of delete count D and append count A.                   *)

IsEditInput == input.family = "edit"
EditD == input.about.edit.del
EditA == Len(input.about.edit.bytes)

\* the label buffer the edit starts from
EditStart == decode(input.about.start)

\* the cursor at the type byte of the item that carries the edit
EditItemAt == ItemsStart + Len(EncodeItem(input.items[1]))

\* the number of count bytes of the edit
CountBytes == IF input.about.edit.form = "packed" THEN 1
              ELSE IF input.about.edit.form = "unpacked" THEN 3 ELSE 7

\* the cursor after the count bytes, where the appended bytes start
EditCursor == EditItemAt + 1 + CountBytes

\* the iteration of the item that carries the edit has run in this call
EditDone ==
  /\ IsEditInput
  /\ pc \in {"parseItems", "assemble", "returned"}
  /\ position > EditItemAt

\* s without its last min(n, |s|) characters
WithoutLast(s, n) == SubSeq(s, 1, IF n >= Len(s) THEN 0 ELSE Len(s) - n)

\* the bytes of the buffer at the cursor of the edit, A of them or as many as
\* the buffer holds
BytesAtCursor ==
  SubSeq(data.buffer, EditCursor + 1,
         IF EditCursor + EditA <= Len(data.buffer) THEN EditCursor + EditA
         ELSE Len(data.buffer))

\* C5, as the specification has it: after an edit (D, A) on the buffer B the
\* label buffer is B without its last min(D, |B|) characters followed by the A
\* bytes at the cursor, the cursor has advanced by the A bytes and no further
\* than the coordinates that follow them, and the buffer is the label of the
\* item decoded.
C5_EditAppliesCounts ==
  EditDone =>
    /\ Len(BytesAtCursor) = EditA
    /\ labelBuffer = WithoutLast(EditStart, EditD) \o decode(BytesAtCursor)
    /\ position \in {EditCursor + EditA + k : k \in {0, 4, 8, 12}}
    /\ position <= data.length
    /\ Len(decoded) = 2 => Last(decoded).label = labelBuffer

\* an edit has been applied with fewer bytes left in the buffer than its
\* append count
C5_Witness == EditDone /\ Len(BytesAtCursor) < EditA

-----------------------------------------------------------------------------
(* C6 *)

\* the label buffer that parseLabelModification() leaves when the edit is
\* given in its packed form, one byte (D << 4) | A, before the same bytes
PackedTwin ==
  parseLabelModification(
    Uint8Array(EncodeEdit("packed", EditD, input.about.edit.bytes)), 0,
    EditStart).labelBuffer

\* C6: for an edit whose appended bytes are all in the buffer, every unpacked
\* form leaves the label buffer that the packed form of the same counts
\* leaves, (0, 0) having no packed form; and in each form, the 32-bit forms of
\* a count included, the buffer is the one the counts D and A give and the
\* cursor has passed the count bytes, the A bytes and the coordinates.
C6_PackedEqualsUnpacked ==
  (EditDone /\ NotCut) =>
    /\ (EditD # 0 \/ EditA # 0) => labelBuffer = PackedTwin
    /\ labelBuffer = WithoutLast(EditStart, EditD) \o decode(input.about.edit.bytes)
    /\ position = EditCursor + EditA + 12

\* an edit whose delete count is given as 0xFF and 32 bits has deleted two
\* characters of 'ab' and appended U+00E9
C6_Witness ==
  /\ EditDone /\ NotCut
  /\ input.about.edit.form = "wideDelete"
  /\ EditD = 2 /\ input.about.start = <<97, 98>>
  /\ input.about.edit.bytes = <<195, 169>>
  /\ labelBuffer = <<233>>

-----------------------------------------------------------------------------
(* C7 *)

\* a LABEL item that names a station
NamesStation(it) ==
  /\ it.type >= LABEL_START /\ it.type <= LABEL_END
  /\ it.point # NONE
  /\ it.label # <<>>

\* no name has been given to two different points by the items of this call
NoNameMoved ==
  \A i, j \in 1..Len(decoded) :
    (NamesStation(decoded[i]) /\ NamesStation(decoded[j])
       /\ decoded[i].label = decoded[j].label)
      => decoded[i].point = decoded[j].point

\* a name has been given twice by the items of this call
NameGivenTwice ==
  \E i, j \in 1..Len(decoded) :
    /\ i < j /\ NamesStation(decoded[i]) /\ NamesStation(decoded[j])
    /\ decoded[i].label = decoded[j].label

\* the result has a station of this name at this point
StationAt(res, name, x, y, z) ==
  \E i \in 1..Len(res.stations) :
    /\ res.stations[i].name = name
    /\ res.stations[i].x = x /\ res.stations[i].y = y /\ res.stations[i].z = z

\* every named end of every leg of the result is where the station of that
\* name is
LegsMeetStations(res) ==
  \A i \in 1..Len(res.legs) :
    LET leg == res.legs[i] IN
    /\ leg.fromStation # <<>> =>
         StationAt(res, leg.fromStation, leg.fromX, leg.fromY, leg.fromZ)
    /\ leg.toStation # <<>> =>
         StationAt(res, leg.toStation, leg.toX, leg.toY, leg.toZ)

-----------------------------------------------------------------------------
(* C8 *)

\* the buffer holds MOVE, LINE, LABEL 'a', LINE, LABEL 'b', each LABEL at the
\* point of the LINE before it
IsMoveLineALineB ==
  /\ input.family = "chain"
  /\ input.items[3].prefix = <<15 * 16 + 1, 97>>
  /\ input.items[5].prefix = <<15 * 16 + 1, 98>>
  /\ input.items[3].point = input.items[2].point
  /\ input.items[5].point = input.items[4].point

\* C8: MOVE, LINE, LABEL 'a', LINE, LABEL 'b' gives exactly two legs and the
\* two stations 'a' and 'b'; the first leg ends at 'a', the second leg goes
\* from 'a' to 'b'.
C8_LabelLineLabel ==
  (pc = "returned" /\ IsMoveLineALineB) =>
    LET res == Last(outcomes) IN
    /\ Len(res.legs) = 2
    /\ Len(res.stations) = 2
    /\ res.stations[1].name = <<97>> /\ res.stations[2].name = <<98>>
    /\ res.legs[1].toStation = <<97>>
    /\ res.legs[2].fromStation = <<97>> /\ res.legs[2].toStation = <<98>>

\* parse() has returned from such a buffer whose three points differ
C8_Witness ==
  /\ pc = "returned" /\ IsMoveLineALineB
  /\ input.items[1].point # input.items[2].point
  /\ input.items[2].point # input.items[4].point
  /\ Len(Last(outcomes).legs) = 2

-----------------------------------------------------------------------------
(* C9 *)

\* a result without the timestamp of its header
WithoutTimestamp(res) == [res EXCEPT !.header.timestamp = Date(0)]

BothReturned ==
  Len(outcomes) = 2 /\ outcomes[1].kind = "return" /\ outcomes[2].kind = "return"

\* C9, as the specification has it: two parses of the same buffer return
\* identical results, the timestamp of the header included.
C9_SameResultTwice == BothReturned => outcomes[1] = outcomes[2]

\* C9, amended: two calls of parse() on the same buffer end the same way, both
\* throwing the same error or both returning; the two results have the same
\* stations in the same order, the same legs, the same bounds and the same
\* header but for its timestamp, and the same timestamp too when the fourth
\* line of the header starts with '@'.
C9_SameResultButClock ==
  Len(outcomes) = 2 =>
    /\ outcomes[1].kind = outcomes[2].kind
    /\ outcomes[1].kind = "throw" => outcomes[1] = outcomes[2]
    /\ outcomes[1].kind = "return" =>
         /\ WithoutTimestamp(outcomes[1]) = WithoutTimestamp(outcomes[2])
         /\ IsPrefix(<<64>>, Line4.text) => outcomes[1] = outcomes[2]

\* two calls have returned the same stations and legs, and headers whose
\* timestamps differ
C9_Witness ==
  /\ BothReturned
  /\ outcomes[1].header.timestamp # outcomes[2].header.timestamp
  /\ outcomes[1].stations # <<>> /\ outcomes[1].legs # <<>>

-----------------------------------------------------------------------------
(* C10 *)

SetMin(set) == CHOOSE m \in set : \A n \in set : m <= n
SetMax(set) == CHOOSE m \in set : \A n \in set : m >= n

Xs(res) == {res.stations[i].x : i \in 1..Len(res.stations)}
Ys(res) == {res.stations[i].y : i \in 1..Len(res.stations)}
Zs(res) == {res.stations[i].z : i \in 1..Len(res.stations)}

\* C10: the bounds of a result are, on each axis, the least and the greatest
\* coordinate of its stations, whatever its legs; they are all 0 when it has
\* no station.
C10_BoundsOfStations ==
  pc = "returned" =>
    LET res == Last(outcomes) IN
    IF res.stations = <<>>
      THEN \A f \in DOMAIN res.bounds : res.bounds[f] = 0
      ELSE /\ res.bounds.minX = SetMin(Xs(res)) /\ res.bounds.maxX = SetMax(Xs(res))
           /\ res.bounds.minY = SetMin(Ys(res)) /\ res.bounds.maxY = SetMax(Ys(res))
           /\ res.bounds.minZ = SetMin(Zs(res)) /\ res.bounds.maxZ = SetMax(Zs(res))

\* a result with two stations and a leg that starts below the bounds
C10_Witness ==
  /\ pc = "returned"
  /\ Len(Last(outcomes).stations) = 2
  /\ Last(outcomes).bounds.minX < Last(outcomes).bounds.maxX
  /\ \E i \in 1..Len(legs) : legs[i].fromZ < Last(outcomes).bounds.minZ

-----------------------------------------------------------------------------
(* C11 *)

\* the names the LABEL items of its give, each once, in the order in which
\* they are first given
RECURSIVE NamesGiven(_)
NamesGiven(its) ==
  IF its = <<>> THEN <<>>
  ELSE LET before == NamesGiven(SubSeq(its, 1, Len(its) - 1))
           it == its[Len(its)]
       IN IF NamesStation(it) /\ ~(\E i \in 1..Len(before) : before[i] = it.label)
            THEN Append(before, it.label) ELSE before

\* the point of the last LABEL item of its that gives the name
LastPointOf(its, name) ==
  its[CHOOSE i \in 1..Len(its) :
        /\ NamesStation(its[i]) /\ its[i].label = name
        /\ \A j \in (i + 1)..Len(its) : ~(NamesStation(its[j]) /\ its[j].label = name)
     ].point

\* C11: the station table is a last-write-wins map keyed by name.  After the
\* items processed so far the Map holds one entry for each name a LABEL item
\* gave (a name is a non-empty label), in the order in which the names were
\* first given, each at the point of the last LABEL item that gave it; and the
\* stations of the result are these entries in this order, no two of them with
\* the same name.
C11_StationsLastWriteWins ==
  LET names == NamesGiven(decoded) IN
  /\ pc \in {"parseItems", "assemble", "returned"} =>
       /\ Len(stations) = Len(names)
       /\ \A i \in 1..Len(names) :
            /\ stations[i].name = names[i]
            /\ stations[i].point = LastPointOf(decoded, names[i])
  /\ pc = "returned" =>
       LET res == Last(outcomes) IN
       /\ Len(res.stations) = Len(names)
       /\ \A i \in 1..Len(names) :
            /\ res.stations[i].name = names[i]
            /\ Point(res.stations[i].x, res.stations[i].y, res.stations[i].z)
                 = LastPointOf(decoded, names[i])
       /\ \A i, j \in 1..Len(res.stations) :
            res.stations[i].name = res.stations[j].name => i = j

\* a result whose one station was named twice, at two different points
C11_Witness ==
  /\ pc = "returned" /\ ~NoNameMoved
  /\ Len(Last(outcomes).stations) = 1
  /\ Len(Last(outcomes).legs) = 2

-----------------------------------------------------------------------------
(* C12 *)

IsLine(type) == type >= LINE_START /\ type <= LINE_END

\* this step is an iteration of the loop that decodes an item: the item is item'
DecodesItem == pc = "parseItems" /\ Len(decoded') = Len(decoded) + 1

\* the LINE items among the items decoded
LinesDecoded == {i \in 1..Len(decoded) : IsLine(decoded[i].type)}

\* the leg that the LINE item it is to create in the state of this step
LegOf(it) ==
  [fromStation |-> IF lastStationLabel = NULL THEN <<>> ELSE lastStationLabel,
   toStation |-> <<>>,
   fromX |-> currentPoint.x, fromY |-> currentPoint.y, fromZ |-> currentPoint.z,
   toX |-> it.point.x, toY |-> it.point.y, toZ |-> it.point.z,
   flags |-> it.type % 64]

\* the step of a LINE item appends its leg and nothing else to the legs, moves
\* the current point to the point of the item, which is the point written in
\* the buffer, and clears lastStationLabel
LineStep ==
  (DecodesItem /\ IsLine(item'.type)) =>
    /\ legs' = Append(legs, LegOf(item'))
    /\ currentPoint' = item'.point
    /\ lastStationLabel' = NULL
    /\ (StdHeaderKept /\ Len(decoded') <= input.whole) =>
         /\ item'.point = input.items[Len(decoded')].point
         /\ legs'[Len(legs')].flags = input.items[Len(decoded')].type % 64

\* every other step of a call keeps the legs, in their order, but for the
\* toStation of a leg
OtherStep ==
  (pc \in {"parseItems", "assemble"} /\ ~(DecodesItem /\ IsLine(item'.type))) =>
    /\ Len(legs') = Len(legs)
    /\ \A i \in 1..Len(legs) : [legs'[i] EXCEPT !.toStation = <<>>]
                                 = [legs[i] EXCEPT !.toStation = <<>>]

\* C12: exactly one leg per LINE item decoded, appended in item order and never
\* removed or reordered; it goes from the current point to the coordinates of
\* the LINE taken as absolute, its flags are rawType & 0x3F, its fromStation is
\* lastStationLabel or empty, its toStation is empty; afterwards the current
\* point is the point of the LINE and lastStationLabel is cleared.
C12_OneLegPerLine ==
  /\ [](pc \in {"parseItems", "assemble", "returned"} =>
          Len(legs) = Cardinality(LinesDecoded))
  /\ [](pc = "returned" => Last(outcomes).legs = legs)
  /\ [][LineStep /\ OtherStep]_vars

\* the second LINE of a call has just been decoded: its leg starts at a named
\* station, away from the origin, and ends unnamed
C12_Witness ==
  /\ pc = "parseItems" /\ IsLine(item.type)
  /\ Len(legs) = 2
  /\ legs[2].fromStation # <<>> /\ legs[2].toStation = <<>>
  /\ legs[1].toStation # <<>>
  /\ Point(legs[2].fromX, legs[2].fromY, legs[2].fromZ) # Point(0, 0, 0)
  /\ currentPoint = item.point /\ lastStationLabel = NULL

-----------------------------------------------------------------------------
(* C13 *)

\* the type byte of the last LABEL item of its that gives the name
LastTypeOf(its, name) ==
  its[CHOOSE i \in 1..Len(its) :
        /\ NamesStation(its[i]) /\ its[i].label = name
        /\ \A j \in (i + 1)..Len(its) : ~(NamesStation(its[j]) /\ its[j].label = name)
     ].type

\* C13, as the specification has it: every station of a result carries as its
\* flags the low 7 bits of the type byte of the LABEL item that last named it.
C13_StationFlags ==
  pc = "returned" =>
    \A i \in 1..Len(Last(outcomes).stations) :
      Last(outcomes).stations[i].flags
        = LastTypeOf(decoded, Last(outcomes).stations[i].name) % 128

\* a result with a station whose flags are 0 and which was last named by a
\* LABEL item of type byte 0x82
C13_Witness ==
  /\ pc = "returned"
  /\ \E i \in 1..Len(Last(outcomes).stations) :
       /\ Last(outcomes).stations[i].flags = 0
       /\ LastTypeOf(decoded, Last(outcomes).stations[i].name) = 130

-----------------------------------------------------------------------------
(* C14 *)

\* the first four lines of the buffer
HeaderLines ==
  The({ The({ The({ The({ <<l1, l2, l3, l4>>
                           : l4 \in {LineAt(data.buffer, l3.next)} })
                   : l3 \in {LineAt(data.buffer, l2.next)} })
             : l2 \in {LineAt(data.buffer, l1.next)} })
       : l1 \in {LineAt(data.buffer, 1)} })

\* the line is '@' and decimal digits
DecimalSeconds(line) ==
  /\ line.present /\ Len(line.text) >= 2 /\ line.text[1] = 64
  /\ \A i \in 2..Len(line.text) : line.text[i] \in 48..57

\* the number a string of decimal digits writes
RECURSIVE DecimalValue(_)
DecimalValue(ds) ==
  IF ds = <<>> THEN 0
  ELSE 10 * DecimalValue(SubSeq(ds, 1, Len(ds) - 1)) + (ds[Len(ds)] - 48)

\* parseHeader() has returned in this call
HeaderReturned == pc \in {"parseItems", "assemble", "returned"}

\* C14: for a buffer that starts with four newline-terminated lines, the
\* magic, the version, a title and '@' with decimal seconds, and a flags byte,
\* parseHeader() returns: the header has the third line as its title, the
\* instant of the seconds as its timestamp and the byte as its flags; the
\* cursor is then one byte past the flags byte, and the first item decoded has
\* the byte there as its type.
C14_HeaderFields ==
  LET line == HeaderLines IN
  (/\ Called
   /\ line[1].present /\ IsPrefix(MAGIC, line[1].text)
   /\ line[2].present /\ IsPrefix(<<118>>, line[2].text)
   /\ line[3].present
   /\ DecimalSeconds(line[4]) /\ line[4].next <= Len(data.buffer)) =>
    /\ HeaderReturned
    /\ header.fileId = line[1].text /\ header.version = line[2].text
    /\ header.title = line[3].text
    /\ header.timestamp = Date(1000 * DecimalValue(Tail(line[4].text)))
    /\ header.flags = data.buffer[line[4].next]
    /\ (pc = "parseItems" /\ decoded = <<>>) => position = line[4].next
    /\ decoded # <<>> => decoded[1].type = data.buffer[line[4].next + 1]
    /\ pc = "returned" => Last(outcomes).header = header

\* parseHeader() has just returned a header with an empty title and the flags
\* 0x80, items ahead
C14_Witness ==
  /\ pc = "parseItems" /\ decoded = <<>>
  /\ DecimalSeconds(Line4)
  /\ header.title = <<>> /\ header.flags = 128 /\ header.timestamp = Date(17000)
  /\ position = Line4.next /\ position < data.length

-----------------------------------------------------------------------------
(* C15 *)

HasPoint(type) == type = MOVE \/ (type >= LINE_START /\ type <= LABEL_END)

\* the signed 32-bit little-endian value of four bytes, in centimetres
CmOf(b) ==
  b[1] + 256 * b[2] + 65536 * b[3]
    + 16777216 * (IF b[4] < 128 THEN b[4] ELSE b[4] - 256)

\* the 12 bytes before the cursor: the payload of the item just decoded
PayloadRead == SubSeq(data.buffer, position - 11, position)

\* an item with coordinates has just been decoded
PointDecoded ==
  pc = "parseItems" /\ decoded # <<>> /\ item = Last(decoded) /\ HasPoint(item.type)

\* the bytes of the centimetre values 1802, -5878, 2047
Payload1802 == <<10, 7, 0, 0, 10, 233, 255, 255, 255, 7, 0, 0>>

\* C15: the point of every MOVE, LINE and LABEL item is read from its 12
\* payload bytes as three signed 32-bit little-endian integers, x then y then
\* z, in centimetres, each divided by 100: a coordinate times 100 is the
\* centimetre value of its four bytes.  The bytes of (1802, -5878, 2047) give
\* (18.02, -58.78, 20.47), and FF FF FF FF gives -0.01, one centimetre below 0.
C15_CentimetresToMetres ==
  PointDecoded =>
    /\ item.point.x * 100 = CmOf(SubSeq(PayloadRead, 1, 4)) * Scale
    /\ item.point.y * 100 = CmOf(SubSeq(PayloadRead, 5, 8)) * Scale
    /\ item.point.z * 100 = CmOf(SubSeq(PayloadRead, 9, 12)) * Scale
    /\ PayloadRead = Payload1802 =>
         /\ item.point.x * 100 = 1802 * Scale
         /\ item.point.y * 100 = -5878 * Scale
         /\ item.point.z * 100 = 2047 * Scale
    /\ SubSeq(PayloadRead, 1, 4) = <<255, 255, 255, 255>> =>
         item.point.x * 100 = -1 * Scale

\* a LABEL item has been decoded from the bytes of (1802, -5878, 2047)
C15_Witness ==
  /\ PointDecoded /\ item.type >= LABEL_START
  /\ PayloadRead = Payload1802
  /\ item.point.y < 0

-----------------------------------------------------------------------------
(* C16, C17: the recent-files list *)

\* the list as getRecentFiles() returns it
StoredList == getRecentFiles(store)

\* the file an entry was made from
FileOf(entry) == File(entry.name, entry.path, entry.size)

\* the files of a list of entries
FilesOf(list) == [i \in 1..Len(list) |-> FileOf(list[i])]

\* every call made so far has returned, and no two of them were under way at
\* the same time
Sequential == ~overlapped
Settled == Sequential /\ calls = <<>> /\ added # <<>>

\* the last call that was given the file f (0 when none was)
LastAdded(f) ==
  IF \E k \in 1..Len(added) : added[k] = f
    THEN CHOOSE k \in 1..Len(added) :
           added[k] = f /\ \A j \in (k + 1)..Len(added) : added[j] # f
    ELSE 0

\* the call k is the last one for the name and size of its file
LastOfItsKind(k) ==
  \A j \in (k + 1)..Len(added) :
    ~(added[j].name = added[k].name /\ added[j].size = added[k].size)

InList(f) == \E i \in 1..Len(StoredList) : FileOf(StoredList[i]) = f

\* this step is the write of the one call under way
SequentialWrite == Sequential /\ Len(calls) = 1 /\ calls' = <<>>

SameKind(old, f) == {i \in 1..Len(old) : old[i].name = f.name /\ old[i].size = f.size}

\* C17: the list is deduplicated by name and size, not by path.  After
\* sequential addRecentFile() calls from an empty store no two entries have
\* the same name and size.  A call for a file whose name and size are those of
\* an entry removes that entry and puts the new entry, with the path given, at
\* index 0; the other entries keep their order.  A call for a file whose name
\* is that of an entry of another size keeps that entry, if the limit has room.
C17_DedupByNameAndSize ==
  /\ [](Sequential =>
          \A i, j \in 1..Len(StoredList) :
            (StoredList[i].name = StoredList[j].name
               /\ StoredList[i].size = StoredList[j].size) => i = j)
  /\ [][SequentialWrite =>
          LET old == StoredList
              new == getRecentFiles(store')
              f == calls[1].file
          IN /\ FileOf(new[1]) = f
             /\ \A i \in SameKind(old, f) :
                  Tail(new) = SubSeq(old, 1, i - 1) \o SubSeq(old, i + 1, Len(old))
             /\ (SameKind(old, f) = {} /\ Len(old) < maxFiles) => Tail(new) = old
         ]_vars

\* 'a' of 1 byte at '/p', 'a' of 2 bytes, then 'a' of 1 byte at '/q': the
\* list is the third and the second
C17_Witness ==
  /\ Settled /\ Len(added) = 3 /\ Len(StoredList) = 2
  /\ added[1].name = added[3].name /\ added[1].size = added[3].size
  /\ added[1].path # added[3].path
  /\ added[2].name = added[1].name /\ added[2].size # added[1].size
  /\ StoredList[1].path = added[3].path
  /\ FileOf(StoredList[2]) = added[2]

-----------------------------------------------------------------------------
(* C18 *)

\* the loop of parseItems() is at the head of an iteration
AtLoopHead == pc = "parseItems" /\ position < data.length

\* C18: parse() terminates.  Every iteration of the item loop moves the cursor
\* forward by at least one byte or leaves the loop, whatever the type byte;
\* so the items decoded are never more than the bytes passed since the
\* header, and a call that has entered the loop returns.
C18_ParseTerminates ==
  /\ [][AtLoopHead => (position' > position \/ pc' = "assemble")]_vars
  /\ [](pc \in {"parseItems", "assemble"} =>
          LET line == HeaderLines IN
          /\ position >= line[4].next + Len(decoded)
          /\ Len(decoded) <= data.length)
  /\ (pc = "parseItems") ~> (pc = "returned")

\* an item of an unknown type, 0x20, which has no payload, has been decoded and
\* the loop goes on with the byte after it
C18_Witness ==
  /\ AtLoopHead /\ decoded # <<>>
  /\ item.type = 32
  /\ position = ItemsStart + 1

-----------------------------------------------------------------------------
(* C19 *)

\* the 32-bit little-endian number at the bytes at..at+3 of bs (counted from 1)
LE32(bs, at) == bs[at] + 256 * bs[at + 1] + 65536 * bs[at + 2] + 16777216 * bs[at + 3]

\* the bytes of a count of the unpacked form that starts at byte at, and the count
CountLength(bs, at) == IF bs[at] = 255 THEN 5 ELSE 1
CountValue(bs, at) == IF bs[at] = 255 THEN LE32(bs, at + 1) ELSE bs[at]

\* the number of bytes of the label edit that starts at byte at of bs: its
\* count bytes and the bytes it appends
EditLength(bs, at) ==
  IF bs[at] # 0 THEN 1 + (bs[at] % 16)
  ELSE LET dl == CountLength(bs, at + 1)
       IN 1 + dl + CountLength(bs, at + 1 + dl) + CountValue(bs, at + 1 + dl)

\* the payload length of the record whose type byte is at the cursor
PayloadLength ==
  LET type == At(data, position) IN
  IF type = 15 THEN 12
  ELSE IF type = 17 THEN 2
  ELSE IF type >= 64 /\ type <= 127 /\ (type \div 32) % 2 = 1 THEN 12
  ELSE IF type >= 64 THEN EditLength(data.buffer, position + 2) + 12
  ELSE 0

\* the record kind of a type byte
KindOf(type) ==
  IF type = 15 THEN "MOVE"
  ELSE IF type >= 64 /\ type <= 127 THEN "LINE"
  ELSE IF type >= 128 THEN "LABEL"
  ELSE "other"

\* the step decodes the item at the cursor as its type byte says and moves the
\* cursor past the type byte and the payload
AdvancesByPayload ==
  DecodesItem =>
    /\ item'.type = At(data, position)
    /\ (item'.point # NONE) = (KindOf(item'.type) # "other")
    /\ (item'.label # NULL) = (KindOf(item'.type) \in {"LINE", "LABEL"})
    /\ position' = position + 1 + PayloadLength

\* C19, as the specification has it: every type byte is of one record kind and
\* every item decoded moves the cursor by 1 and its payload length: 12 for
\* MOVE, 2 for the DATE 0x11, the bytes of the label edit and 12 for LINE and
\* LABEL, 0 for every other byte.
C19_AdvanceByKind == [][AdvancesByPayload]_vars

\* two items have been decoded, a DATE 0x11 and the style item 0x07, from a
\* buffer that holds no whole item: two of the three bytes of a DATE
C19_Witness ==
  /\ StdHeaderKept /\ input.whole = 0
  /\ Len(decoded) = 2
  /\ decoded[1].type = 17 /\ decoded[2].type = 7
  /\ data.length = ItemsStart + 2

\* the same, on the steps that decode an item that is whole in the buffer
C19_AdvanceOfWholeItems ==
  [][(Len(decoded) < input.whole \/ ~StdHeaderKept) => AdvancesByPayload]_vars

-----------------------------------------------------------------------------
(* C20 *)

\* the point that the 12 bytes from byte at of the buffer (counted from 1) write
PointAt(at) ==
  Point(CmOf(SubSeq(data.buffer, at, at + 3)),
        CmOf(SubSeq(data.buffer, at + 4, at + 7)),
        CmOf(SubSeq(data.buffer, at + 8, at + 11)))

\* the label edit that starts at byte at of bs: its delete count, its append
\* count and the byte where the bytes it appends start
EditAt(bs, at) ==
  IF bs[at] # 0
    THEN [del |-> bs[at] \div 16, app |-> bs[at] % 16, start |-> at + 1]
    ELSE LET dl == CountLength(bs, at + 1)
             al == CountLength(bs, at + 1 + dl)
         IN [del |-> CountValue(bs, at + 1), app |-> CountValue(bs, at + 1 + dl),
             start |-> at + 1 + dl + al]

\* the type byte at the cursor is a LINE whose bit 0x20 is set
NoEditLine ==
  /\ At(data, position) >= 64 /\ At(data, position) <= 127
  /\ (At(data, position) \div 32) % 2 = 1

\* a LINE with bit 0x20 set takes its coordinates from the 12 bytes after the
\* type byte and leaves the label buffer as it was
LineKeepsBuffer ==
  (DecodesItem /\ NoEditLine) =>
    /\ labelBuffer' = labelBuffer
    /\ item'.point = PointAt(position + 2)
    /\ position' = position + 13

\* a LABEL, and a LINE with bit 0x20 clear, edits the label buffer it finds
\* and takes its coordinates from the 12 bytes after the bytes of the edit
EditBeforePoint ==
  (DecodesItem /\ At(data, position) >= 64 /\ ~NoEditLine) =>
    LET e == EditAt(data.buffer, position + 2) IN
    /\ labelBuffer' = WithoutLast(labelBuffer, e.del)
                        \o decode(SubSeq(data.buffer, e.start, e.start + e.app - 1))
    /\ item'.label = labelBuffer'
    /\ item'.point = PointAt(e.start + e.app)
    /\ position' = e.start + e.app + 11

\* C20: a LINE whose type byte has bit 0x20 set reads no label edit, its 12
\* coordinate bytes follow the type byte, and it leaves the label buffer
\* unchanged, so that the next edit applies to the buffer as it was before the
\* LINE; a LINE with the bit clear and every LABEL performs its edit before
\* it reads its coordinates.
C20_NoLabelChangeBit == [][LineKeepsBuffer /\ EditBeforePoint]_vars

\* LABEL 'a', a LINE with bit 0x20 set, then a LABEL whose edit appends 'b':
\* the third label is 'ab'
C20_Witness ==
  /\ Len(decoded) = 3
  /\ decoded[1].label = <<97>>
  /\ decoded[2].type = 96 /\ decoded[2].label = <<>>
  /\ decoded[3].type = 130 /\ decoded[3].label = <<97, 98>>
  /\ labelBuffer = <<97, 98>>

-----------------------------------------------------------------------------
(* C21 *)

\* the number of LINE items among the first n items of its: the index in legs
\* of the leg of the last of them
LinesIn(its, n) == Cardinality({i \in 1..n : IsLine(its[i].type)})

\* the last MOVE among the items decoded (0 when there is none)
LastMove ==
  IF \E i \in 1..Len(decoded) : decoded[i].type = MOVE
    THEN CHOOSE i \in 1..Len(decoded) :
           decoded[i].type = MOVE /\ \A j \in (i + 1)..Len(decoded) : decoded[j].type # MOVE
    ELSE 0

\* the step of a MOVE item puts the current point at the point written after
\* its type byte, clears lastStationLabel and pendingLeg, and leaves the legs
\* and the stations as they are
MoveStep ==
  (DecodesItem /\ item'.type = MOVE) =>
    /\ item'.point = PointAt(position + 2)
    /\ currentPoint' = item'.point
    /\ lastStationLabel' = NULL
    /\ pendingLeg' = 0
    /\ legs' = legs
    /\ stations' = stations

\* the step of a LABEL item leaves alone every leg made before the last MOVE
LabelKeepsOlderLegs ==
  (DecodesItem /\ item'.type >= LABEL_START /\ LastMove # 0) =>
    \A k \in 1..LinesIn(decoded, LastMove) : legs'[k] = legs[k]

\* the LINE item i is the first LINE after a MOVE
FirstLineAfterMove(i) ==
  /\ IsLine(decoded[i].type)
  /\ \E j \in 1..(i - 1) :
       /\ decoded[j].type = MOVE
       /\ \A k \in (j + 1)..(i - 1) : ~IsLine(decoded[k].type)

\* no LABEL item names a station between the LINE item i and the item before
\* it that is a MOVE or a LINE
NoNameBefore(i) ==
  \A k \in 1..(i - 1) :
    NamesStation(decoded[k]) =>
      \E m \in (k + 1)..(i - 1) : decoded[m].type = MOVE \/ IsLine(decoded[m].type)

InCall == pc \in {"parseItems", "assemble", "returned"}

\* C21, as the specification has it: a MOVE sets the current point, clears
\* lastStationLabel and pendingLeg and adds no leg and no station; the leg of
\* the first LINE after a MOVE has an empty fromStation; no LABEL after a MOVE
\* changes a leg made before that MOVE.
C21_MoveThenLineUnnamed ==
  /\ [][MoveStep /\ LabelKeepsOlderLegs]_vars
  /\ [](InCall =>
          \A i \in 1..Len(decoded) :
            FirstLineAfterMove(i) => legs[LinesIn(decoded, i)].fromStation = <<>>)

\* C21, amended: the same, the leg of the first LINE after a MOVE having an
\* empty fromStation when no LABEL item has named a station between the MOVE
\* and the LINE.
C21_MoveClearsLabel ==
  /\ [][MoveStep /\ LabelKeepsOlderLegs]_vars
  /\ [](InCall =>
          \A i \in 1..Len(decoded) :
            (FirstLineAfterMove(i) /\ NoNameBefore(i)) =>
              legs[LinesIn(decoded, i)].fromStation = <<>>)

\* LABEL 'a', MOVE, LINE: the leg starts at no station though a station was
\* named before the MOVE
C21_Witness ==
  /\ Len(decoded) = 3
  /\ NamesStation(decoded[1]) /\ decoded[2].type = MOVE /\ IsLine(decoded[3].type)
  /\ Len(legs) = 1 /\ legs[1].fromStation = <<>>

-----------------------------------------------------------------------------
(* C22 *)

\* the step of a LABEL item, n the label buffer after its edit and p its
\* point: the station n is at p, in the place the name had or last,
\* lastStationLabel is n and the current point is p
LabelUpserts ==
  LET n == labelBuffer'
      p == item'.point
  IN /\ item'.label = n
     /\ \E i \in 1..Len(stations') : stations'[i] = [name |-> n, point |-> p]
     /\ \A i \in 1..Len(stations) :
          stations[i].name # n => stations'[i] = stations[i]
     /\ Len(stations') = Len(stations)
                           + (IF \E i \in 1..Len(stations) : stations[i].name = n
                                THEN 0 ELSE 1)
     /\ lastStationLabel' = n
     /\ currentPoint' = p

DecodesLabel == DecodesItem /\ item'.type >= LABEL_START

\* C22, as the specification has it: every LABEL item decoded, whatever the
\* label buffer n after its edit and whatever its point p, upserts the station
\* n at p, sets lastStationLabel to n and sets the current point to p.
C22_LabelUpserts == [][DecodesLabel => LabelUpserts]_vars

\* the same, for the LABEL items that leave the label buffer non-empty
C22_NamedLabelUpserts == [][(DecodesLabel /\ labelBuffer' # <<>>) => LabelUpserts]_vars

\* a LABEL item whose edit leaves the label buffer empty has been decoded:
\* there is no station, lastStationLabel is null and the current point is not
\* the point of the item
C22_Witness ==
  /\ pc = "parseItems" /\ Len(decoded) = 1
  /\ item.type >= LABEL_START /\ item.label = <<>> /\ labelBuffer = <<>>
  /\ stations = <<>> /\ lastStationLabel = NULL
  /\ currentPoint # item.point

-----------------------------------------------------------------------------
(* C23 *)

\* two coordinates differ by less than 0.001 m, a millimetre (they are kept
\* in centimetres)
Within1mm(a, b) == (a - b) * 10 < 1 /\ (b - a) * 10 < 1

\* there is a pending leg and it ends at the point p
PendingEndsAt(p) ==
  /\ pendingLeg # 0
  /\ Within1mm(legs[pendingLeg].toX, p.x)
  /\ Within1mm(legs[pendingLeg].toY, p.y)
  /\ Within1mm(legs[pendingLeg].toZ, p.z)

\* a LABEL at the end of the pending leg names that end and clears pendingLeg
BackFills ==
  PendingEndsAt(item'.point) =>
    /\ legs' = [legs EXCEPT ![pendingLeg].toStation = labelBuffer']
    /\ pendingLeg' = 0

\* any other LABEL changes no toStation and keeps pendingLeg
KeepsPending ==
  ~PendingEndsAt(item'.point) =>
    /\ Len(legs') = Len(legs)
    /\ \A i \in 1..Len(legs) : legs'[i].toStation = legs[i].toStation
    /\ pendingLeg' = pendingLeg

\* the last item decoded that is a MOVE or a LINE is a LINE
LastLineAfterLastMove ==
  \E i \in 1..Len(decoded) :
    /\ IsLine(decoded[i].type)
    /\ \A j \in (i + 1)..Len(decoded) :
         decoded[j].type # MOVE /\ ~IsLine(decoded[j].type)

\* within a call, a leg whose toStation changes is the leg of the most recent
\* LINE, that LINE is later than the last MOVE, and its toStation was empty
OnlyPendingOnce ==
  pc \in {"parseItems", "assemble"} =>
    \A i \in 1..Len(legs) :
      (i <= Len(legs') /\ legs'[i].toStation # legs[i].toStation) =>
        /\ i = Len(legs) /\ i = pendingLeg
        /\ LastLineAfterLastMove
        /\ legs[i].toStation = <<>>

\* C23, as the specification has it: a LABEL(name, p) processed while the
\* pending leg ends at p, within 0.001 m on every axis, sets the toStation of
\* that leg to name and clears pendingLeg; every other LABEL changes no
\* toStation and keeps pendingLeg; only the leg of the most recent LINE since
\* the last MOVE is ever filled, and a toStation once set does not change.
C23_BackFill ==
  [][(DecodesLabel => (BackFills /\ KeepsPending)) /\ OnlyPendingOnce]_vars

\* the same, for the LABEL items that leave the label buffer non-empty
C23_NamedBackFill ==
  [][((DecodesLabel /\ labelBuffer' # <<>>) => (BackFills /\ KeepsPending))
       /\ OnlyPendingOnce]_vars

\* LINE to p, then a LABEL at p whose label is empty: the leg is still pending
C23_Witness ==
  /\ pc = "parseItems" /\ decoded # <<>>
  /\ item.type >= LABEL_START /\ item.label = <<>>
  /\ pendingLeg # 0
  /\ Point(legs[pendingLeg].toX, legs[pendingLeg].toY, legs[pendingLeg].toZ) = item.point

-----------------------------------------------------------------------------
(* C24 *)

IsMoveOrLine(it) == it.type = MOVE \/ IsLine(it.type)

\* the items that reposition the builder in the code: MOVE, LINE, and the
\* LABEL items that name a station
Repositions(it) == IsMoveOrLine(it) \/ NamesStation(it)

\* the point of the last of the first n items decoded that satisfies the
\* test, and the origin, where the builder starts, when there is none
LastTarget(n, test(_)) ==
  IF \E i \in 1..n : test(decoded[i])
    THEN decoded[CHOOSE i \in 1..n :
                   test(decoded[i]) /\ \A j \in (i + 1)..n : ~test(decoded[j])].point
    ELSE Point(0, 0, 0)

FromPoint(leg) == Point(leg.fromX, leg.fromY, leg.fromZ)

\* the current point, and the from point of every leg, is the point of the
\* last item before it that satisfies the test
CurrentPointFollows(test(_)) ==
  InCall =>
    /\ currentPoint = LastTarget(Len(decoded), test)
    /\ \A i \in 1..Len(decoded) :
         IsLine(decoded[i].type) =>
           FromPoint(legs[LinesIn(decoded, i)]) = LastTarget(i - 1, test)

\* C24, as the specification has it: the current point is always the target
\* of the last MOVE or LINE item seen (the origin before the first of them),
\* never the point of a LABEL, and so the from point of every leg is the
\* target of the MOVE or LINE before its LINE.
C24_CurrentPointIsMoveOrLine == CurrentPointFollows(IsMoveOrLine)

\* what the code keeps: the current point is the point of the last MOVE, LINE
\* or station-naming LABEL
C24_CurrentPointFollowsLabels == CurrentPointFollows(Repositions)

\* MOVE to p1, LABEL at p2, LINE: the leg starts at p2, the point of the LABEL
C24_Witness ==
  /\ Len(decoded) = 3 /\ Len(legs) = 1
  /\ decoded[1].type = MOVE /\ NamesStation(decoded[2]) /\ IsLine(decoded[3].type)
  /\ decoded[2].point # decoded[1].point
  /\ FromPoint(legs[1]) = decoded[2].point

-----------------------------------------------------------------------------
(* C25 *)

\* a LABEL item named a station after the MOVE or LINE before the LINE item i
\* and before that LINE, or before it when there is no MOVE or LINE before
NamedBefore(i) ==
  \E k \in 1..(i - 1) :
    /\ NamesStation(decoded[k])
    /\ \A m \in (k + 1)..(i - 1) : ~IsMoveOrLine(decoded[m])

\* a LABEL item named a station at the target of the LINE item i before the
\* next MOVE or LINE
NamedAtTarget(i) ==
  \E k \in (i + 1)..Len(decoded) :
    /\ NamesStation(decoded[k])
    /\ decoded[k].point = decoded[i].point
    /\ \A m \in (i + 1)..(k - 1) : ~IsMoveOrLine(decoded[m])

-----------------------------------------------------------------------------
(* C26 *)

\* the first byte at or after `from` that holds the delimiter (counted from
\* 0), and the length of the data when there is none
FirstOf(delimiterCode, from) ==
  IF \E i \in from..(data.length - 1) : At(data, i) = delimiterCode
    THEN CHOOSE i \in from..(data.length - 1) :
           At(data, i) = delimiterCode
             /\ \A j \in from..(i - 1) : At(data, j) # delimiterCode
    ELSE data.length

\* the bytes from..to-1 of the data
BytesOf(from, to) == [i \in 1..(to - from) |-> At(data, from + i - 1)]

\* the call found its delimiter: it returned the bytes before it, decoded,
\* and left the cursor one byte past it
FoundReturns(r) ==
  FirstOf(r.delimiter, r.start) < data.length =>
    /\ ~r.threw
    /\ r.value = decode(BytesOf(r.start, FirstOf(r.delimiter, r.start)))
    /\ r.position = FirstOf(r.delimiter, r.start) + 1

\* the call had the null delimiter and did not find it: it returned the rest
\* of the data and left the cursor at the end
NullReturnsRest(r) ==
  (FirstOf(r.delimiter, r.start) = data.length /\ r.delimiter = 0) =>
    /\ ~r.threw
    /\ r.value = decode(BytesOf(r.start, data.length))
    /\ r.position = data.length

\* the call had another delimiter and did not find it
Missing(r) == FirstOf(r.delimiter, r.start) = data.length /\ r.delimiter # 0

\* C26, as the specification has it: readString(delimiter) with a non-null
\* delimiter that is not found before the end of the data fails with an error
\* that reaches its caller; with the null delimiter it returns the rest of the
\* data; with a delimiter that is found it returns the bytes before it and
\* leaves the cursor one byte past it.
C26_MissingDelimiterThrows ==
  \A i \in 1..Len(reads) :
    /\ FoundReturns(reads[i])
    /\ NullReturnsRest(reads[i])
    /\ Missing(reads[i]) => reads[i].threw

\* what the code does: the same, but a non-null delimiter that is not found
\* gives '' and no error, the cursor at the end of the data
C26_MissingDelimiterReturnsEmpty ==
  \A i \in 1..Len(reads) :
    /\ FoundReturns(reads[i])
    /\ NullReturnsRest(reads[i])
    /\ Missing(reads[i]) =>
         ~reads[i].threw /\ reads[i].value = <<>> /\ reads[i].position = data.length

\* readString('\n') has returned '' from a cursor with bytes ahead of it and
\* no newline among them
C26_Witness ==
  \E i \in 1..Len(reads) :
    /\ Missing(reads[i]) /\ reads[i].delimiter = NL
    /\ reads[i].start < data.length
    /\ ~reads[i].threw /\ reads[i].value = <<>>

-----------------------------------------------------------------------------
(* C27 *)

\* the step decodes an item that is no MOVE, LINE or LABEL and leaves the
\* graph builder as it is
OtherItemKeepsBuilder ==
  (DecodesItem /\ KindOf(item'.type) = "other") =>
    /\ item'.type = At(data, position)
    /\ UNCHANGED <<currentPoint, lastStationLabel, pendingLeg, stations, legs>>

\* the type byte at the cursor is a LABEL or a LINE whose bit 0x20 is clear
EditingItemAtCursor ==
  \/ At(data, position) >= LABEL_START
  \/ IsLine(At(data, position)) /\ (At(data, position) \div 32) % 2 = 0

\* an iteration of the loop that changes the label buffer is the iteration
\* of a LABEL, or of a LINE whose bit 0x20 is clear
OnlyEditsChangeBuffer ==
  (AtLoopHead /\ labelBuffer' # labelBuffer) => EditingItemAtCursor

\* C27: a style, reserved, control, DATE, ERROR INFO, CROSS-SECTION or unknown
\* item changes nothing in the graph builder: the current point,
\* lastStationLabel, pendingLeg, the stations and the legs stay as they are;
\* and the label buffer is changed only by a LABEL item and by a LINE item
\* whose bit 0x20 is clear, never by a MOVE or by any other item.
C27_OtherItemsChangeNothing == [][OtherItemKeepsBuilder /\ OnlyEditsChangeBuffer]_vars

\* a DATE item has been decoded after a LABEL and a LINE: the leg is still
\* pending, the station and the label buffer are there
C27_Witness ==
  /\ pc = "parseItems" /\ Len(decoded) = 3
  /\ item.type = 17
  /\ pendingLeg # 0 /\ Len(legs) = 1 /\ Len(stations) = 1
  /\ labelBuffer # <<>> /\ currentPoint # Point(0, 0, 0)

-----------------------------------------------------------------------------
(* C28 *)

\* C28, as the specification has it: the cursor is never before the start nor
\* past the end of the data, and an edit whose append count is larger than the
\* number of bytes left appends nothing short of its count: the label buffer
\* is then the one the delete step left.
C28_CursorWithinData ==
  /\ position >= 0 /\ position <= data.length
  /\ (EditDone /\ Len(BytesAtCursor) < EditA) =>
       labelBuffer = WithoutLast(EditStart, EditD)

\* parse() has returned with the cursor past the end of the data, after an
\* edit that appended the one byte left of the two it counts
C28_Witness ==
  /\ pc = "returned" /\ position > data.length
  /\ IsEditInput /\ EditA = 2 /\ Len(BytesAtCursor) = 1
  /\ labelBuffer = WithoutLast(EditStart, EditD) \o decode(BytesAtCursor)

-----------------------------------------------------------------------------
(* C29 *)

\* the 12 bytes of the data before the cursor, as data[i] gives them
PayloadViewed == BytesOf(position - 12, position)

\* the buffer under test holds every byte of its input
WholeInput == data.length = Len(input.full)

\* The coordinates of an item are the little-endian values of the 12 bytes
\* of the data before the cursor, and a count given in 32 bits is the value
\* of the four bytes of the data after its 0xFF: the edit has deleted and
\* appended what its bytes say.
ReadsAddressTheData ==
  /\ PointDecoded =>
       item.point = Point(CmOf(SubSeq(PayloadViewed, 1, 4)),
                          CmOf(SubSeq(PayloadViewed, 5, 8)),
                          CmOf(SubSeq(PayloadViewed, 9, 12)))
  /\ (EditDone /\ WholeInput) =>
       labelBuffer = WithoutLast(EditStart, EditD) \o decode(input.about.edit.bytes)

\* C29, as the specification has it: for every Uint8Array, a view at a
\* non-zero byte offset of a larger buffer included, readUint32 and readInt32
\* return the little-endian value of the bytes data[position ..
\* position + w - 1], the bytes that readUint8 returns one by one.
C29_ReadsAddressTheView == ReadsAddressTheData

\* the same, for an array that starts at byte 0 of its ArrayBuffer
C29_ReadsAddressTheBuffer == data.byteOffset = 0 => ReadsAddressTheData

\* an item has been decoded from a view at byte offset 1: its coordinates are
\* not those of the 12 bytes of the data before the cursor
C29_Witness ==
  /\ data.byteOffset = 1 /\ PointDecoded
  /\ PayloadViewed = PointBytes(P3)
  /\ item.point # P3

-----------------------------------------------------------------------------
(* C30 *)

\* two calls have been made and have returned, for two files that differ in
\* name or size, on a manager whose limit has room for both
TwoCallsDone ==
  /\ Len(added) = 2 /\ calls = <<>>
  /\ ~sameFile(added[1], added[2])
  /\ maxFiles >= 2

BothStored == InList(added[1]) /\ InList(added[2])

\* C30, as the specification has it: when two addRecentFile() calls for
\* different files have run at the same time, their reads and writes of the
\* storage interleaved in any order, both files are in the stored list once
\* both calls have returned.
C30_NoLostUpdate == (TwoCallsDone /\ overlapped) => BothStored

\* the same, for two calls of which the second was made after the first returned
C30_SequentialKeepsBoth == (TwoCallsDone /\ ~overlapped) => BothStored

\* two calls that ran at the same time have returned and the stored list
\* holds the file of one of them only
C30_Witness ==
  /\ TwoCallsDone /\ overlapped
  /\ Len(StoredList) = 1
  /\ ~BothStored

=============================================================================
